---- MODULE Spec2Model ----
(***************************************************************************)
(* Client-side product data layer of vmodern-furniture-hub                 *)
(* (src/unnamed/part_005, the useProducts hook module): the retry wrapper, *)
(* the record assembler, the mutation orchestrators over the remote store  *)
(* (schema: src/unnamed/part_013, part_012) and the cache regions.         *)
(*                                                                         *)
(* Several specifications share the module's variables; each fixes the     *)
(* variables of the other parts:                                           *)
(*   SpecRetry      withRetry, one invocation, step by step                *)
(*   SpecMutations  addProduct / updateProduct / deleteProduct /           *)
(*                  fetchProducts of useProducts against the store         *)
(*   SpecCache      useProductById, usePublicProducts and                  *)
(*                  usePaginatedFloorSamples reading through the caches,   *)
(*                  with the clock, unmounts and page reloads              *)
(***************************************************************************)
EXTENDS Integers, Sequences, FiniteSets, TLC

VARIABLES
    retry,      \* the running withRetry invocation
    db,         \* the remote store: the four collections and its id counters
    products,   \* useProducts: the client product list (useState products)
    error,      \* useProducts: the error state (useState error)
    last,       \* the last useProducts call: the store before it (pre), what it was
                \* given, how it ended, whether every call so far succeeded (clean),
                \* the store writes it issued, whether one of them reported an error
                \* (wfail) and the number of cache reads made before it (reads)
    ops,        \* number of useProducts calls, or of hook mounts, made so far
    now,        \* Date.now(), in milliseconds
    ticks,      \* number of clock advances so far
    cache,      \* the module-level caches: productByIdCache, publicProductsCache,
                \* floorSamplesPageCache, floorSamplesCountCache
    storage,    \* localStorage: the stored floor-sample pages and count
    hooks,      \* the state of each mounted hook instance, by consumer
    pending,    \* the store requests in flight
    hist        \* the kind of hook in use, the reads made so far and the last
                \* completed fetch

cacheVars == <<now, ticks, cache, storage, hooks, pending, hist>>

vars == <<retry, db, products, error, last, ops,
          now, ticks, cache, storage, hooks, pending, hist>>

\* The value of an absent optional field (undefined) and of a NULL column, for
\* text fields; for product ids (uuid columns part_of_set, child_product_id and the
\* optional partOfSet, childProductId), which are numbers here, NullId and UndefId.
Undef == "undefined"
Null == "null"
NullId == 0
UndefId == -1

-----------------------------------------------------------------------------
(* Bounds                                                                  *)

MaxRetries == 3
MaxProducts == 4
MaxSetItems == 2
MaxOps == 2
MaxConsumers == 2
MaxMounts == 2
MaxTicks == 2
MaxPage == 1
PageSize == 2
LastPage == 3
MaxImages == 3
MaxCountReads == 3

-----------------------------------------------------------------------------
(* withRetry (part_005:52-69)                                              *)

DefaultRetries == 2
DefaultDelay == 300

Values == {"v1", "v2"}
Errors == {"e1", "e2"}

\* What one invocation of fn does: resolve with a value or reject with an error.
FnOutcomes == [ok : {TRUE}, val : Values] \cup [ok : {FALSE}, val : Errors]

RetryLoopCondOffByOne(i, retries) == i < retries

\* for (let i = 0; i <= retries; i++)
RetryLoopCond(i, retries) == i <= retries

\* setTimeout(resolve, delay * (i + 1))
RetryBackoff(i, delay) == delay * (i + 1)

\* The call withRetry(fn, retries, delay) at its entry: i = 0, lastError = null.
RetryStart(retries, delay) ==
    [retries |-> retries, delay |-> delay, i |-> 0,
     pc |-> IF RetryLoopCond(0, retries) THEN "call" ELSE "rejected",
     lastError |-> Null, result |-> Null, thrown |-> Null,
     outcomes |-> <<>>, waits |-> <<>>]

RetryIdle ==
    [retries |-> 0, delay |-> 0, i |-> 0, pc |-> "idle", lastError |-> Null,
     result |-> Null, thrown |-> Null, outcomes |-> <<>>, waits |-> <<>>]

\* try { return await fn(); } catch (err) { lastError = err; if (i < retries) await sleep }
\* When this was the last pass, the loop ends and lastError is thrown.
RetryInvoke ==
    /\ retry.pc = "call"
    /\ \E o \in FnOutcomes :
         retry' =
           IF o.ok
           THEN [retry EXCEPT !.pc = "returned", !.result = o.val,
                              !.outcomes = Append(@, o)]
           ELSE IF retry.i < retry.retries
           THEN [retry EXCEPT !.pc = "sleep", !.lastError = o.val,
                              !.outcomes = Append(@, o)]
           ELSE [retry EXCEPT !.i = @ + 1,
                              !.pc = IF RetryLoopCond(retry.i + 1, retry.retries)
                                     THEN "call" ELSE "rejected",
                              !.lastError = o.val,
                              !.thrown = IF RetryLoopCond(retry.i + 1, retry.retries)
                                         THEN @ ELSE o.val,
                              !.outcomes = Append(@, o)]
    /\ UNCHANGED <<db, products, error, last, ops>>
    /\ UNCHANGED cacheVars

\* The backoff timer fires: i++ and the loop condition is tested again.
RetryWake ==
    /\ retry.pc = "sleep"
    /\ retry' = [retry EXCEPT
                   !.i = @ + 1,
                   !.waits = Append(@, RetryBackoff(retry.i, retry.delay)),
                   !.pc = IF RetryLoopCond(retry.i + 1, retry.retries)
                          THEN "call" ELSE "rejected",
                   !.thrown = IF RetryLoopCond(retry.i + 1, retry.retries)
                              THEN @ ELSE retry.lastError]
    /\ UNCHANGED <<db, products, error, last, ops>>
    /\ UNCHANGED cacheVars

-----------------------------------------------------------------------------
(* The remote store (schema part_013:101-190, part_012:1-9)                *)
(* Rows keep the columns the orchestrators decide on; the free-text        *)
(* columns (name, description, tags, is_new) are copied verbatim by every  *)
(* path and are left out.  Ids are drawn from counters and never reused;   *)
(* created_at order is id order.                                           *)

EmptyDb ==
    [products |-> <<>>,          \* id -> row, for the ids that exist
     product_images |-> {},
     set_items |-> {},
     set_item_images |-> {},
     nextProductId |-> 1,
     nextSetItemId |-> 1]

ProductIds(d) == DOMAIN d.products

\* Trigger of part_013:234-243: price_final follows price_original and discount_percent.
PriceFinalTrigger(row) ==
    [row EXCEPT !.price_final =
        IF row.discount_percent > 0
        THEN (row.price_original * (100 - row.discount_percent)) \div 100
        ELSE row.price_original]

\* A foreign key to products(id): NULL or an existing id.
FkOk(d, ref) == ref = NullId \/ ref \in ProductIds(d)

\* insert into products ... .select().single(): the new row's id is d.nextProductId.
StoreInsertProduct(d, row) ==
    IF FkOk(d, row.part_of_set)
    THEN [err |-> FALSE,
          db |-> [d EXCEPT !.products =
                      [x \in ProductIds(d) \cup {d.nextProductId} |->
                          IF x = d.nextProductId
                          THEN PriceFinalTrigger(
                                 [f \in DOMAIN row \cup {"id", "price_final"} |->
                                     IF f = "id" THEN d.nextProductId
                                     ELSE IF f = "price_final" THEN 0
                                     ELSE row[f]])
                          ELSE d.products[x]],
                    !.nextProductId = @ + 1]]
    ELSE [err |-> TRUE, db |-> d]

\* update products set <patch> where id in ids (rows that do not exist match nothing).
StoreUpdateProducts(d, ids, patch) ==
    LET hit == ids \cap ProductIds(d)
        fk == "part_of_set" \in DOMAIN patch => FkOk(d, patch.part_of_set)
    IN IF hit # {} /\ ~fk
       THEN [err |-> TRUE, db |-> d]
       ELSE [err |-> FALSE,
             db |-> [d EXCEPT !.products =
                        [x \in ProductIds(d) |->
                            IF x \in hit
                            THEN PriceFinalTrigger(
                                   [f \in DOMAIN d.products[x] |->
                                       IF f \in DOMAIN patch THEN patch[f]
                                       ELSE d.products[x][f]])
                            ELSE d.products[x]]]]

\* insert into product_images: rows (product_id, image_url, display_order = index).
StoreInsertImages(d, pid, urls) ==
    IF pid \in ProductIds(d)
    THEN [err |-> FALSE,
          db |-> [d EXCEPT !.product_images = @ \cup
                    {[product_id |-> pid, image_url |-> urls[k], display_order |-> k - 1]
                       : k \in 1..Len(urls)}]]
    ELSE [err |-> TRUE, db |-> d]

\* delete from product_images where product_id = pid
StoreDeleteImages(d, pid) ==
    [d EXCEPT !.product_images = {r \in @ : r.product_id # pid}]

\* insert into set_items ... .select(): the rows get consecutive ids in input order.
StoreInsertSetItems(d, rows) ==
    IF \A k \in 1..Len(rows) :
          rows[k].product_id \in ProductIds(d) /\ FkOk(d, rows[k].child_product_id)
    THEN [err |-> FALSE,
          db |-> [d EXCEPT !.set_items = @ \cup
                      {[f \in DOMAIN rows[k] \cup {"id"} |->
                           IF f = "id" THEN d.nextSetItemId + k - 1 ELSE rows[k][f]]
                         : k \in 1..Len(rows)},
                    !.nextSetItemId = @ + Len(rows)]]
    ELSE [err |-> TRUE, db |-> d]

\* insert into set_item_images
StoreInsertSetItemImages(d, rows) ==
    [d EXCEPT !.set_item_images = @ \cup rows]

\* delete from set_item_images where set_item_id in ids
StoreDeleteSetItemImages(d, ids) ==
    [d EXCEPT !.set_item_images = {r \in @ : r.set_item_id \notin ids}]

\* delete from set_items where <cond>; set_item_images follow (ON DELETE CASCADE).
StoreDeleteSetItems(d, gone) ==
    [d EXCEPT !.set_items = @ \ gone,
              !.set_item_images = {r \in @ : r.set_item_id \notin {g.id : g \in gone}}]

\* delete from products where id = pid, with the schema's referential actions:
\* product_images and set_items of pid cascade, part_of_set and child_product_id
\* that point at pid are set to NULL.
StoreDeleteProduct(d, pid) ==
    LET gone == {s \in d.set_items : s.product_id = pid}
        d1 == StoreDeleteSetItems(StoreDeleteImages(d, pid), gone)
    IN [d1 EXCEPT
          !.products = [x \in ProductIds(d) \ {pid} |->
                          IF d.products[x].part_of_set = pid
                          THEN [d.products[x] EXCEPT !.part_of_set = NullId]
                          ELSE d.products[x]],
          !.set_items = {IF s.child_product_id = pid
                         THEN [s EXCEPT !.child_product_id = NullId] ELSE s : s \in @}]

-----------------------------------------------------------------------------
(* Record assembler and the full-catalog fetch (part_005:72-121, 128-252)  *)

\* Array.prototype.sort((a, b) => a.display_order - b.display_order): stable, ascending.
InsertByDisplayOrder(sorted, r) ==
    LET k == Cardinality({i \in 1..Len(sorted) : sorted[i].display_order <= r.display_order})
    IN SubSeq(sorted, 1, k) \o <<r>> \o SubSeq(sorted, k + 1, Len(sorted))

RECURSIVE SortByDisplayOrder(_)
SortByDisplayOrder(rows) ==
    IF rows = <<>> THEN <<>>
    ELSE InsertByDisplayOrder(SortByDisplayOrder(SubSeq(rows, 1, Len(rows) - 1)),
                              rows[Len(rows)])

\* The rows of a select without ORDER BY, as an array in some order.
RECURSIVE RowsOf(_)
RowsOf(S) ==
    IF S = {} THEN <<>>
    ELSE LET r == CHOOSE x \in S : TRUE IN <<r>> \o RowsOf(S \ {r})

\* value || undefined for a nullable text column
OrUndef(v) == IF v = Null THEN Undef ELSE v
\* value || undefined for a nullable uuid column
OrUndefId(v) == IF v = NullId THEN UndefId ELSE v
\* list.length > 0 ? list : undefined  (an absent list is the empty sequence here)
UrlsOf(rows) == [k \in 1..Len(rows) |-> rows[k].image_url]

\* dbToProduct(dbProduct, images, setItems, setItemImages)
DbToProduct(dbProduct, images, setItems, setItemImages) ==
    LET imageUrls == UrlsOf(SortByDisplayOrder(images))
        sortedItems == SortByDisplayOrder(setItems)
        productSetItems ==
            [k \in 1..Len(sortedItems) |->
                LET item == sortedItems[k]
                    itemImages == UrlsOf(SortByDisplayOrder(
                        SelectSeq(setItemImages, LAMBDA img : img.set_item_id = item.id)))
                IN [id |-> item.id,
                    price |-> item.price,
                    imageUrl |-> OrUndef(item.image_url),
                    imageUrls |-> itemImages,
                    childProductId |-> OrUndefId(item.child_product_id)]]
    IN [id |-> dbProduct.id,
        category |-> dbProduct.category,
        productType |-> OrUndef(dbProduct.product_type),
        isSet |-> dbProduct.is_set,
        partOfSet |-> OrUndefId(dbProduct.part_of_set),
        canBeSoldSeparately |-> <<dbProduct.can_be_sold_separately>>,
        priceOriginal |-> dbProduct.price_original,
        discountPercent |-> dbProduct.discount_percent,
        priceFinal |-> dbProduct.price_final,
        mainImageUrl |-> dbProduct.main_image_url,
        imageUrls |-> imageUrls,
        setItems |-> productSetItems]

\* The argument arrays as dbToProduct leaves them: images.sort(...) and
\* setItems.sort(...) sort the arrays they are called on, in place;
\* setItemImages is only filtered, and the sort is of the filtered copy.
DbToProductLeaves(images, setItems, setItemImages) ==
    [images |-> SortByDisplayOrder(images),
     setItems |-> SortByDisplayOrder(setItems),
     setItemImages |-> setItemImages]

\* .order('created_at', { ascending: false }): the ids, newest first.
RECURSIVE NewestFirst(_)
NewestFirst(ids) ==
    IF ids = {} THEN <<>>
    ELSE LET m == CHOOSE x \in ids : \A y \in ids : y <= x
         IN <<m>> \o NewestFirst(ids \ {m})

\* What fetchProducts assembles from the store rows d: every product with its images,
\* its set items and, unless that fetch failed (withImages = FALSE), their images.
AssembleCatalog(d, withImages) ==
    LET order == NewestFirst(ProductIds(d))
    IN [k \in 1..Len(order) |->
          LET pid == order[k]
              productImages == SortByDisplayOrder(
                  RowsOf({r \in d.product_images : r.product_id = pid}))
              productSetItems == SortByDisplayOrder(
                  RowsOf({r \in d.set_items : r.product_id = pid}))
              itemIds == {productSetItems[j].id : j \in 1..Len(productSetItems)}
              productSetItemImages ==
                  IF withImages
                  THEN RowsOf({r \in d.set_item_images : r.set_item_id \in itemIds})
                  ELSE <<>>
          IN DbToProduct(d.products[pid], productImages, productSetItems,
                         productSetItemImages)]

\* How a fetchProducts run can end: every read succeeded; the set_item_images read
\* failed after its retries (the catalog is built without them); a read of products,
\* product_images or set_items failed after its retries.
FetchOutcomes == {"ok", "no_set_item_images", "failed"}

\* useProducts.fetchProducts: the client list it leaves (setProducts is not reached
\* when a read failed).
FetchProductsList(d, outcome, prev) ==
    IF outcome = "failed" THEN prev
    ELSE AssembleCatalog(d, outcome = "ok")

\* setError(null) at the start, setError('Failed to load products') in the catch.
FetchProductsError(outcome) ==
    IF outcome = "failed" THEN "Failed to load products" ELSE Null

-----------------------------------------------------------------------------
(* Mutation orchestrators (part_005:258-779)                               *)
(* A run threads st = [db, n, err, w, fail]: the store so far, the number   *)
(* of store calls whose error the code tests, whether one of them made the *)
(* run throw, the number of store writes issued and whether one of them    *)
(* reported an error.  failAt = k makes the k-th tested call report an     *)
(* error (and apply nothing); a call also reports an error when the schema *)
(* rejects it.  Calls whose result the code does not test are taken to     *)
(* succeed.                                                                *)

\* const { error } = await <call>;  if (error) throw error;
CheckedApplying(st, failAt, res) ==
    IF st.err THEN st
    ELSE IF st.n + 1 = failAt \/ res.err
    THEN [st EXCEPT !.n = @ + 1, !.w = @ + 1, !.err = TRUE, !.fail = TRUE, !.db = res.db]
    ELSE [st EXCEPT !.n = @ + 1, !.w = @ + 1, !.db = res.db]
Checked(st, failAt, res) ==
    IF st.err THEN st
    ELSE IF st.n + 1 = failAt \/ res.err
    THEN [st EXCEPT !.n = @ + 1, !.w = @ + 1, !.err = TRUE, !.fail = TRUE]
    ELSE [st EXCEPT !.n = @ + 1, !.w = @ + 1, !.db = res.db]

\* await <call>;  (result not inspected)
Unchecked(st, d2) == IF st.err THEN st ELSE [st EXCEPT !.w = @ + 1, !.db = d2]

\* if (error) console.warn(...): the step is lost, the run goes on.
Warned(st, failAt, d2) ==
    IF st.err THEN st
    ELSE IF st.n + 1 = failAt THEN [st EXCEPT !.n = @ + 1, !.w = @ + 1, !.fail = TRUE]
    ELSE [st EXCEPT !.n = @ + 1, !.w = @ + 1, !.db = d2]

\* value || null
OrNull(v) == IF v = Undef THEN Null ELSE v
OrNullId(v) == IF v = UndefId THEN NullId ELSE v

\* const hasSetItems = !!(product.setItems && product.setItems.length > 0)
HasSetItems(p) == Len(p.setItems) > 0

\* item.imageUrls?.length > 0 ? item.imageUrls : item.imageUrl ? [item.imageUrl] : []
ItemImageUrls(item) ==
    IF Len(item.imageUrls) > 0 THEN item.imageUrls
    ELSE IF item.imageUrl # Undef THEN <<item.imageUrl>>
    ELSE <<>>

\* itemImageUrls[0] || product.mainImageUrl
ChildMainImageUrl(p, item) ==
    IF Len(ItemImageUrls(item)) > 0 THEN ItemImageUrls(item)[1] ELSE p.mainImageUrl

ChildRowInheritingDiscount(p, item, parentId) ==
    [category |-> p.category,
     product_type |-> OrNull(p.productType),
     price_original |-> item.price,
     discount_percent |-> p.discountPercent,
     main_image_url |-> ChildMainImageUrl(p, item),
     is_set |-> FALSE,
     part_of_set |-> parentId,
     can_be_sold_separately |-> TRUE]

\* The child product written for a set item (part_005:316-330, 543-557, 584-598).
ChildRow(p, item, parentId) ==
    [category |-> p.category,
     product_type |-> OrNull(p.productType),
     price_original |-> item.price,
     discount_percent |-> 0,
     main_image_url |-> ChildMainImageUrl(p, item),
     is_set |-> FALSE,
     part_of_set |-> parentId,
     can_be_sold_separately |-> TRUE]

\* The set_items rows of the input (part_005:355-364, 622-631).
SetItemRows(p, pid, childIds) ==
    [k \in 1..Len(p.setItems) |->
        [product_id |-> pid,
         price |-> p.setItems[k].price,
         image_url |-> IF p.setItems[k].imageUrl # Undef THEN p.setItems[k].imageUrl
                       ELSE IF Len(p.setItems[k].imageUrls) > 0
                       THEN p.setItems[k].imageUrls[1] ELSE Null,
         display_order |-> k - 1,
         child_product_id |-> OrNullId(childIds[k])]]

\* The set_item_images rows for the inserted set items (part_005:380-391, 647-658);
\* firstId is the id of the first inserted set item.
SetItemImageRows(p, firstId) ==
    UNION {{[set_item_id |-> firstId + k - 1,
             image_url |-> p.setItems[k].imageUrls[j],
             display_order |-> j - 1] : j \in 1..Len(p.setItems[k].imageUrls)}
           : k \in 1..Len(p.setItems)}

\* Insert the set items and their images (part_005:354-403, 622-669).
InsertSetItemsAndImages(st, p, pid, failAt) ==
    LET firstId == st.db.nextSetItemId
        s1 == Checked(st, failAt,
                      StoreInsertSetItems(st.db, SetItemRows(p, pid, st.childIds)))
        imgs == SetItemImageRows(p, firstId)
    IN IF imgs = {} THEN s1
       ELSE Warned(s1, failAt, StoreInsertSetItemImages(s1.db, imgs))

\* Create the child product of set item k and its images (part_005:314-350, 582-619).
CreateChild(st, p, k, parentId, failAt) ==
    LET item == p.setItems[k]
        childId == st.db.nextProductId
        s1 == Checked(st, failAt, StoreInsertProduct(st.db, ChildRow(p, item, parentId)))
        s2 == IF s1.err THEN s1 ELSE [s1 EXCEPT !.childIds[k] = childId]
    IN IF Len(ItemImageUrls(item)) > 0
       THEN Checked(s2, failAt, StoreInsertImages(s2.db, childId, ItemImageUrls(item)))
       ELSE s2

\* addProduct, the loop over product.setItems.entries() from item k on
\* (part_005:303-352): a child is created for every set item.
RECURSIVE AddChildren(_, _, _, _, _)
AddChildren(st, p, k, parentId, failAt) ==
    IF k > Len(p.setItems) \/ st.err THEN st
    ELSE AddChildren(CreateChild(st, p, k, parentId, failAt), p, k + 1, parentId, failAt)

\* The store after the try block of addProduct (part_005:262-403).
AddProductRun(d, p, failAt) ==
    LET newId == d.nextProductId
        s0 == [db |-> d, n |-> 0, err |-> FALSE, w |-> 0, fail |-> FALSE,
               childIds |-> [k \in 1..Len(p.setItems) |-> NullId]]
        s1 == Checked(s0, failAt, StoreInsertProduct(d,
                [category |-> p.category,
                 product_type |-> OrNull(p.productType),
                 is_set |-> HasSetItems(p),
                 part_of_set |-> OrNullId(p.partOfSet),
                 can_be_sold_separately |->
                     IF p.canBeSoldSeparately = <<>> THEN TRUE
                     ELSE p.canBeSoldSeparately[1],
                 price_original |-> p.priceOriginal,
                 discount_percent |-> p.discountPercent,
                 main_image_url |-> p.mainImageUrl]))
        s2 == IF Len(p.imageUrls) > 0
              THEN Checked(s1, failAt, StoreInsertImages(s1.db, newId, p.imageUrls))
              ELSE s1
        s3 == AddChildren(s2, p, 1, newId, failAt)
    IN IF HasSetItems(p) THEN InsertSetItemsAndImages(s3, p, newId, failAt) ELSE s3

\* calculateFinalPrice (src/src/types/product.ts:71-76)
CalculateFinalPrice(originalPrice, discountPercent) ==
    IF discountPercent <= 0 THEN originalPrice
    ELSE (originalPrice * (100 - discountPercent)) \div 100

\* newFrontendProduct / updatedProduct: the input echoed as a Product
\* (part_005:406-426, 681-701).
LocalProduct(id, p) ==
    [id |-> id,
     category |-> p.category,
     productType |-> p.productType,
     isSet |-> HasSetItems(p),
     partOfSet |-> p.partOfSet,
     canBeSoldSeparately |-> p.canBeSoldSeparately,
     priceOriginal |-> p.priceOriginal,
     discountPercent |-> p.discountPercent,
     priceFinal |-> CalculateFinalPrice(p.priceOriginal, p.discountPercent),
     mainImageUrl |-> p.mainImageUrl,
     imageUrls |-> p.imageUrls,
     setItems |-> <<>>]

\* f overridden by g where g is defined
Merge(f, g) == [x \in DOMAIN f \cup DOMAIN g |-> IF x \in DOMAIN g THEN g[x] ELSE f[x]]

\* productUpdate (part_005:458-477): part_of_set and can_be_sold_separately are
\* written only when the input carries them.
ProductUpdate(p) ==
    LET base == [category |-> p.category,
                 product_type |-> OrNull(p.productType),
                 price_original |-> p.priceOriginal,
                 discount_percent |-> p.discountPercent,
                 main_image_url |-> p.mainImageUrl,
                 is_set |-> HasSetItems(p)]
        pos == IF p.partOfSet # UndefId
               THEN [part_of_set |-> OrNullId(p.partOfSet)] ELSE <<>>
        sep == IF p.canBeSoldSeparately # <<>>
               THEN [can_be_sold_separately |-> p.canBeSoldSeparately[1]] ELSE <<>>
    IN Merge(Merge(base, pos), sep)

DetachKeepingLink == [is_set |-> FALSE, can_be_sold_separately |-> TRUE]

\* .update({ part_of_set: null, is_set: false, can_be_sold_separately: true })
\* (part_005:676, 757)
Detach == [part_of_set |-> NullId, is_set |-> FALSE, can_be_sold_separately |-> TRUE]

\* Update the linked child of set item k in place (part_005:538-580).
UpdateChild(st, p, k, parentId, failAt) ==
    LET item == p.setItems[k]
        childId == item.childProductId
        s1 == Checked(st, failAt,
                      StoreUpdateProducts(st.db, {childId}, ChildRow(p, item, parentId)))
        s2 == Unchecked(s1, StoreDeleteImages(s1.db, childId))
        s3 == IF Len(ItemImageUrls(item)) > 0
              THEN Checked(s2, failAt,
                           StoreInsertImages(s2.db, childId, ItemImageUrls(item)))
              ELSE s2
    IN IF s3.err THEN s3 ELSE [s3 EXCEPT !.childIds[k] = childId]

\* updateProduct, the loop over product.setItems.entries() from item k on
\* (part_005:528-620).
RECURSIVE SyncChildren(_, _, _, _, _)
SyncChildren(st, p, k, parentId, failAt) ==
    IF k > Len(p.setItems) \/ st.err THEN st
    ELSE SyncChildren(
           IF p.setItems[k].childProductId # UndefId
           THEN UpdateChild(st, p, k, parentId, failAt)
           ELSE CreateChild(st, p, k, parentId, failAt),
           p, k + 1, parentId, failAt)

\* The store after the try block of updateProduct (part_005:457-678).
UpdateProductRun(d, id, p, failAt) ==
    LET s0 == [db |-> d, n |-> 0, err |-> FALSE, w |-> 0, fail |-> FALSE,
               childIds |-> [k \in 1..Len(p.setItems) |-> NullId]]
        s1 == Checked(s0, failAt, StoreUpdateProducts(d, {id}, ProductUpdate(p)))
        s2 == Unchecked(s1, StoreDeleteImages(s1.db, id))
        s3 == IF Len(p.imageUrls) > 0
              THEN Checked(s2, failAt, StoreInsertImages(s2.db, id, p.imageUrls))
              ELSE s2
        existingSetItems == {r \in s3.db.set_items : r.product_id = id}
        s4 == IF existingSetItems # {}
              THEN Unchecked(s3, StoreDeleteSetItemImages(s3.db,
                                    {r.id : r \in existingSetItems}))
              ELSE s3
        s5 == Unchecked(s4, StoreDeleteSetItems(s4.db,
                                {r \in s4.db.set_items : r.product_id = id}))
        existingChildIds == {r.child_product_id : r \in existingSetItems} \ {NullId}
        s6 == SyncChildren(s5, p, 1, id, failAt)
        s7 == IF HasSetItems(p) THEN InsertSetItemsAndImages(s6, p, id, failAt) ELSE s6
        usedChildIds == {s7.childIds[k] : k \in 1..Len(p.setItems)}
        removedChildIds == existingChildIds \ usedChildIds
    IN IF removedChildIds # {}
       THEN Unchecked(s7, StoreUpdateProducts(s7.db, removedChildIds, Detach).db)
       ELSE s7

DeleteProductRunCascading(d, id, failAt) ==
    LET childIds == {x \in ProductIds(d) \ {id} : d.products[x].part_of_set = id}
        gone == [products |-> [x \in ProductIds(d) \ childIds |-> d.products[x]],
                 product_images |-> {r \in d.product_images : r.product_id \notin childIds},
                 set_items |-> {r \in d.set_items : r.child_product_id \notin childIds},
                 set_item_images |-> d.set_item_images,
                 nextProductId |-> d.nextProductId,
                 nextSetItemId |-> d.nextSetItemId]
    IN Checked([db |-> d, n |-> 0, err |-> FALSE, w |-> 0, fail |-> FALSE], failAt,
               [err |-> FALSE, db |-> StoreDeleteProduct(gone, id)])

DeleteProductRunUnsettingParent(d, id, failAt) ==
    LET found == id \in ProductIds(d)
        s0 == [db |-> d, n |-> 0, err |-> FALSE, w |-> 0, fail |-> FALSE]
        parent == IF found THEN {d.products[id].part_of_set} \ {NullId} ELSE {}
        s1 == IF parent # {}
              THEN Unchecked(s0, StoreUpdateProducts(
                        StoreDeleteSetItems(d, {r \in d.set_items :
                                                  r.child_product_id = id}),
                        parent, [is_set |-> FALSE]).db)
              ELSE s0
        childIds == {x \in ProductIds(s1.db) : s1.db.products[x].part_of_set = id}
        s2 == IF found /\ d.products[id].is_set /\ childIds # {}
              THEN Unchecked(s1, StoreUpdateProducts(s1.db, childIds, Detach).db)
              ELSE s1
    IN Checked(s2, failAt, [err |-> FALSE, db |-> StoreDeleteProduct(s2.db, id)])

\* The store after deleteProduct's calls (part_005:737-762).
DeleteProductRun(d, id, failAt) ==
    LET found == id \in ProductIds(d)
        s0 == [db |-> d, n |-> 0, err |-> FALSE, w |-> 0, fail |-> FALSE]
        s1 == IF found /\ d.products[id].part_of_set # NullId
              THEN Unchecked(s0, StoreDeleteSetItems(d,
                        {r \in d.set_items : r.child_product_id = id}))
              ELSE s0
        childIds == {x \in ProductIds(s1.db) : s1.db.products[x].part_of_set = id}
        s2 == IF found /\ d.products[id].is_set /\ childIds # {}
              THEN Unchecked(s1, StoreUpdateProducts(s1.db, childIds, Detach).db)
              ELSE s1
    IN Checked(s2, failAt, [err |-> FALSE, db |-> StoreDeleteProduct(s2.db, id)])

-----------------------------------------------------------------------------
(* Inputs of the mutation calls                                            *)

\* The product forms the calls are given.  Admin.tsx (part_001:1298-1309) passes
\* neither partOfSet nor canBeSoldSeparately and takes mainImageUrl from imageUrls[0]
\* or a fallback; the second form also sets canBeSoldSeparately, which the hook's
\* input type allows.
ProductKinds ==
    {[category |-> "floor_sample", productType |-> "sofa_set",
      canBeSoldSeparately |-> <<>>, priceOriginal |-> 100, discountPercent |-> 25,
      mainImageUrl |-> "a", imageUrls |-> <<"a", "b">>],
     [category |-> "online_inventory", productType |-> Undef,
      canBeSoldSeparately |-> <<FALSE>>, priceOriginal |-> 200, discountPercent |-> 50,
      mainImageUrl |-> "fallback", imageUrls |-> <<>>]}

\* The set item written at position k of the form: the odd positions carry an image
\* list, the even ones none, and the prices differ by position.
ItemAt(k, child) ==
    IF k % 2 = 1
    THEN [price |-> 10 * k, imageUrl |-> "c", imageUrls |-> <<"c">>,
          childProductId |-> child]
    ELSE [price |-> 10 * k, imageUrl |-> Undef, imageUrls |-> <<>>,
          childProductId |-> child]

\* Set items: up to MaxSetItems, each linked to one of the products refs or to none.
SetItemsOver(refs) ==
    UNION {{[k \in 1..n |-> ItemAt(k, link[k])] : link \in [1..n -> refs \cup {UndefId}]}
           : n \in 0..MaxSetItems}

\* The inputs whose set items link to products of refs.  partOfSet is not passed
\* (Admin.tsx never does).
InputsOver(refs) ==
    {Merge(k, [partOfSet |-> UndefId, setItems |-> items]) :
        k \in ProductKinds, items \in SetItemsOver(refs)}

\* The child links the edit form of product id carries: openEditDialog copies the set
\* items of the listed product, childProductId included (part_001:1222-1246).
LinksInList(list, id) ==
    UNION {{list[k].setItems[j].childProductId : j \in 1..Len(list[k].setItems)}
           : k \in {k \in 1..Len(list) : list[k].id = id}} \ {UndefId}

\* The set items of the input that name no child product.
Unlinked(p) == {k \in 1..Len(p.setItems) : p.setItems[k].childProductId = UndefId}

NoInput == <<>>

-----------------------------------------------------------------------------
(* useProducts: the calls as actions                                       *)

\* The fetch outcomes that differ for store d.
OutcomesFor(d) ==
    IF d.set_items = {} THEN FetchOutcomes \ {"no_set_item_images"} ELSE FetchOutcomes

ListIds(list) == {list[k].id : k \in 1..Len(list)}

\* useEffect(() => { fetchProducts() }) and every later refresh (part_005:128-256).
FetchProducts ==
    /\ \E outcome \in OutcomesFor(db) :
         /\ products' = FetchProductsList(db, outcome, products)
         /\ error' = FetchProductsError(outcome)
         /\ last' = [op |-> "fetch", id |-> NullId, input |-> NoInput,
                     ok |-> outcome # "failed", fetch |-> outcome,
                     clean |-> last.clean, pre |-> db,
                     reads |-> Len(hist.reads), writes |-> 0, wfail |-> FALSE]
    /\ UNCHANGED <<retry, db, ops>>
    /\ UNCHANGED cacheVars

\* Whether addProduct / updateProduct end in fetchProducts(): in the catch block, and
\* after a success with set items (part_005:428-429, 438, 703-704, 719).
Refetches(run, p) == run.err \/ HasSetItems(p)

\* The client list addProduct leaves (part_005:428-432, 438).
AddProductList(run, p, newId, outcome, prev) ==
    IF Refetches(run, p) THEN FetchProductsList(run.db, outcome, prev)
    ELSE <<LocalProduct(newId, p)>> \o prev

\* addProduct(product) (part_005:258-450)
AddProductCall ==
    /\ \E p \in InputsOver({}) :
         /\ db.nextProductId + Len(p.setItems) <= MaxProducts
         /\ \E failAt \in 0..AddProductRun(db, p, 0).n :
              \E run \in {AddProductRun(db, p, failAt)} :
              \E outcome \in IF Refetches(run, p) THEN OutcomesFor(run.db)
                                ELSE {"none"} :
                   /\ db' = run.db
                   /\ products' = AddProductList(run, p, db.nextProductId, outcome, products)
                   /\ error' = IF Refetches(run, p) THEN FetchProductsError(outcome)
                               ELSE error
                   /\ last' = [op |-> "add", id |-> db.nextProductId, input |-> p,
                               ok |-> ~run.err, fetch |-> outcome,
                               clean |-> last.clean /\ ~run.err, pre |-> db,
                               reads |-> Len(hist.reads), writes |-> run.w,
                               wfail |-> run.fail]
    /\ UNCHANGED retry
    /\ UNCHANGED cacheVars

\* addProduct as one of the MaxOps calls of a useProducts instance.
AddProduct ==
    /\ ops < MaxOps
    /\ AddProductCall
    /\ ops' = ops + 1

\* prev.map((p) => p.id === id ? { ...updatedProduct, createdAt: p.createdAt } : p)
ReplaceInList(list, id, product) ==
    [k \in 1..Len(list) |-> IF list[k].id = id THEN product ELSE list[k]]

\* The client list updateProduct leaves (part_005:703-714, 719).
UpdateProductList(run, id, p, outcome, prev) ==
    IF Refetches(run, p) THEN FetchProductsList(run.db, outcome, prev)
    ELSE ReplaceInList(prev, id, LocalProduct(id, p))

\* updateProduct(id, product) (part_005:452-731)
UpdateProductWith(id, p) ==
         /\ db.nextProductId + Cardinality(Unlinked(p)) <= MaxProducts + 1
         /\ \E failAt \in 0..UpdateProductRun(db, id, p, 0).n :
              \E run \in {UpdateProductRun(db, id, p, failAt)} :
              \E outcome \in IF Refetches(run, p) THEN OutcomesFor(run.db)
                                ELSE {"none"} :
                   /\ db' = run.db
                   /\ products' = UpdateProductList(run, id, p, outcome, products)
                   /\ error' = IF Refetches(run, p) THEN FetchProductsError(outcome)
                               ELSE error
                   /\ last' = [op |-> "update", id |-> id, input |-> p,
                               ok |-> ~run.err, fetch |-> outcome,
                               clean |-> last.clean /\ ~run.err, pre |-> db,
                               reads |-> Len(hist.reads), writes |-> run.w,
                               wfail |-> run.fail]
         /\ UNCHANGED retry
         /\ UNCHANGED cacheVars

\* updateProduct called from the edit form of Admin.tsx, which carries the child
\* links of the listed product.
UpdateProductCall ==
    \E id \in ProductIds(db) :
    \E p \in InputsOver(LinksInList(products, id)) : UpdateProductWith(id, p)

\* The inputs updateProduct's parameter type allows for store d: partOfSet and every
\* childProductId are optional ids (Omit<Product, ...>, part_005:452-455).
TypedInputs(d) ==
    {[p EXCEPT !.partOfSet = parent] :
        p \in InputsOver(ProductIds(d)), parent \in ProductIds(d) \cup {UndefId}}

\* updateProduct called once with any input of its parameter type.
UpdateProductTyped ==
    /\ last.op = "none"
    /\ \E id \in ProductIds(db) : \E p \in TypedInputs(db) : UpdateProductWith(id, p)
    /\ UNCHANGED ops

\* updateProduct as one of the MaxOps calls of a useProducts instance.
UpdateProduct ==
    /\ ops < MaxOps
    /\ UpdateProductCall
    /\ ops' = ops + 1

DeleteProductListRemovingLate(run, id, outcome, prev) ==
    IF run.err THEN FetchProductsList(run.db, outcome, prev)
    ELSE SelectSeq(prev, LAMBDA x : x.id # id)

DeleteProductListNoRollback(run, id, outcome, prev) ==
    SelectSeq(prev, LAMBDA x : x.id # id)

\* The client list deleteProduct leaves: the optimistic removal, and after a store
\* error the re-fetch (part_005:735, 764-767).
DeleteProductList(run, id, outcome, prev) ==
    LET removed == SelectSeq(prev, LAMBDA x : x.id # id)
    IN IF run.err THEN FetchProductsList(run.db, outcome, removed) ELSE removed

\* deleteProduct(id) (part_005:733-779)
DeleteProductCall ==
    /\ \E id \in ProductIds(db) \cup ListIds(products) :
       \E failAt \in 0..1 :
         \E run \in {DeleteProductRun(db, id, failAt)} :
         \E outcome \in IF run.err THEN OutcomesFor(run.db) ELSE {"none"} :
              /\ db' = run.db
              /\ products' = DeleteProductList(run, id, outcome, products)
              /\ error' = IF run.err THEN FetchProductsError(outcome) ELSE error
              /\ last' = [op |-> "delete", id |-> id, input |-> NoInput,
                          ok |-> ~run.err, fetch |-> outcome,
                          clean |-> last.clean /\ ~run.err, pre |-> db,
                          reads |-> Len(hist.reads), writes |-> run.w,
                          wfail |-> run.fail]
    /\ UNCHANGED retry
    /\ UNCHANGED cacheVars

\* deleteProduct as one of the MaxOps calls of a useProducts instance.
DeleteProduct ==
    /\ ops < MaxOps
    /\ DeleteProductCall
    /\ ops' = ops + 1

-----------------------------------------------------------------------------
(* The cache regions (part_005:863-878, 1059-1063, 1340-1492)              *)
(* An absent value (null) is the empty sequence, a present one a sequence  *)
(* of one element; a Map is a function defined on the keys it holds.       *)

PRODUCT_CACHE_DURATION == 10 * 60 * 1000
CACHE_DURATION == 5 * 60 * 1000
FLOOR_SAMPLES_CACHE_DURATION == 5 * 60 * 1000
FLOOR_SAMPLES_COUNT_CACHE_DURATION == 5 * 60 * 1000

\* Map.set / Map.delete
Put(m, k, v) == [x \in DOMAIN m \cup {k} |-> IF x = k THEN v ELSE m[x]]
Remove(m, k) == [x \in DOMAIN m \ {k} |-> m[x]]

\* The caches when the module is loaded.
EmptyMemory ==
    [productByIdCache |-> <<>>,
     publicProductsCache |-> <<>>,
     floorSamplesPageCache |-> <<>>,
     floorSamplesCountCache |-> <<>>]

\* localStorage as the stored functions find it: working ("ok"), not there at all
\* (typeof window === 'undefined': "absent"), throwing on every access ("denied"),
\* or readable but throwing on setItem (the quota is used up: "full").
StorageModes == {"ok", "absent", "denied", "full"}

\* localStorage.getItem / removeItem return; localStorage.setItem returns.
Readable(sto) == sto.mode \in {"ok", "full"}
Writable(sto) == sto.mode = "ok"

\* A working localStorage with no floor-sample page and no count stored.  A stored
\* string is kept as the payload it parses to (parses = TRUE) or as one that
\* JSON.parse rejects.
EmptyStorage == [page |-> <<>>, count |-> <<>>, mode |-> "ok"]

ProductStaleAtDuration(age) == age >= PRODUCT_CACHE_DURATION

\* Date.now() - cached.timestamp > PRODUCT_CACHE_DURATION
ProductStale(age) == age > PRODUCT_CACHE_DURATION

\* getCachedProductById(id) at time t: the product served, and the cache it leaves.
GetCachedProductById(mem, id, t) ==
    IF id \notin DOMAIN mem.productByIdCache THEN [value |-> <<>>, mem |-> mem]
    ELSE IF ProductStale(t - mem.productByIdCache[id].timestamp)
    THEN [value |-> <<>>, mem |-> [mem EXCEPT !.productByIdCache = Remove(@, id)]]
    ELSE [value |-> <<mem.productByIdCache[id].product>>, mem |-> mem]

SetCachedProductByIdStampingZero(mem, product, t) ==
    [mem EXCEPT !.productByIdCache =
        Put(@, product.id, [product |-> product, timestamp |-> 0])]

\* setCachedProductById(product) at time t
SetCachedProductById(mem, product, t) ==
    [mem EXCEPT !.productByIdCache =
        Put(@, product.id, [product |-> product, timestamp |-> t])]

PublicFreshAtBoundary(mem, t) ==
    /\ mem.publicProductsCache # <<>>
    /\ t - mem.publicProductsCache[1].timestamp <= CACHE_DURATION

\* publicProductsCache && Date.now() - publicProductsCache.timestamp < CACHE_DURATION
PublicFresh(mem, t) ==
    /\ mem.publicProductsCache # <<>>
    /\ t - mem.publicProductsCache[1].timestamp < CACHE_DURATION

\* getFloorSamplesCacheKey(page, pageSize)
GetFloorSamplesCacheKey(page, pageSize) == <<page, pageSize>>

\* getStoredFloorSamplesPage(page, pageSize) at time t
GetStoredFloorSamplesPage(sto, page, pageSize, t) ==
    LET key == GetFloorSamplesCacheKey(page, pageSize)
    IN IF ~Readable(sto) \/ key \notin DOMAIN sto.page THEN [value |-> <<>>, sto |-> sto]
       ELSE IF ~sto.page[key].parses THEN [value |-> <<>>, sto |-> sto]
       ELSE IF t - sto.page[key].timestamp > FLOOR_SAMPLES_CACHE_DURATION
       THEN [value |-> <<>>, sto |-> [sto EXCEPT !.page = Remove(@, key)]]
       ELSE [value |-> <<sto.page[key]>>, sto |-> sto]

\* setStoredFloorSamplesPage(page, pageSize, products, totalCount) at time t
SetStoredFloorSamplesPage(sto, page, pageSize, list, totalCount, t) ==
    IF ~Writable(sto) THEN sto
    ELSE [sto EXCEPT !.page = Put(@, GetFloorSamplesCacheKey(page, pageSize),
            [products |-> list, totalCount |-> totalCount, timestamp |-> t,
             parses |-> TRUE])]

\* getStoredFloorSamplesCount() at time t
GetStoredFloorSamplesCount(sto, t) ==
    IF ~Readable(sto) \/ sto.count = <<>> THEN [value |-> <<>>, sto |-> sto]
    ELSE IF ~sto.count[1].parses THEN [value |-> <<>>, sto |-> sto]
    ELSE IF t - sto.count[1].timestamp > FLOOR_SAMPLES_COUNT_CACHE_DURATION
    THEN [value |-> <<>>, sto |-> [sto EXCEPT !.count = <<>>]]
    ELSE [value |-> <<sto.count[1].count>>, sto |-> sto]

\* setStoredFloorSamplesCount(count) at time t
SetStoredFloorSamplesCount(sto, count, t) ==
    IF ~Writable(sto) THEN sto
    ELSE [sto EXCEPT !.count = <<[count |-> count, timestamp |-> t, parses |-> TRUE]>>]

\* getCachedFloorSamplesCount() at time t: an empty memory cache is refilled from
\* localStorage and stamped with the time of the read.
GetCachedFloorSamplesCount(mem, sto, t) ==
    IF mem.floorSamplesCountCache = <<>>
    THEN LET stored == GetStoredFloorSamplesCount(sto, t)
         IN IF stored.value = <<>>
            THEN [value |-> <<>>, mem |-> mem, sto |-> stored.sto]
            ELSE [value |-> stored.value,
                  mem |-> [mem EXCEPT !.floorSamplesCountCache =
                              <<[count |-> stored.value[1], timestamp |-> t]>>],
                  sto |-> stored.sto]
    ELSE IF t - mem.floorSamplesCountCache[1].timestamp
              > FLOOR_SAMPLES_COUNT_CACHE_DURATION
    THEN [value |-> <<>>, mem |-> [mem EXCEPT !.floorSamplesCountCache = <<>>],
          sto |-> sto]
    ELSE [value |-> <<mem.floorSamplesCountCache[1].count>>, mem |-> mem, sto |-> sto]

SetCachedFloorSamplesPageMirrorFirst(mem, sto, page, pageSize, list, totalCount, t) ==
    IF ~Writable(sto) THEN [mem |-> mem, sto |-> sto]
    ELSE [mem |-> [mem EXCEPT !.floorSamplesPageCache =
                     Put(@, GetFloorSamplesCacheKey(page, pageSize),
                         [products |-> list, totalCount |-> totalCount,
                          timestamp |-> t])],
          sto |-> SetStoredFloorSamplesPage(sto, page, pageSize, list, totalCount, t)]

SetCachedFloorSamplesCountOnly(mem, sto, count, t) ==
    [mem |-> [mem EXCEPT
                !.floorSamplesCountCache = <<[count |-> count, timestamp |-> t]>>],
     sto |-> SetStoredFloorSamplesCount(sto, count, t)]

\* setCachedFloorSamplesCount(count) at time t: the count is also written into every
\* cached page.
SetCachedFloorSamplesCount(mem, sto, count, t) ==
    [mem |-> [mem EXCEPT
                !.floorSamplesCountCache = <<[count |-> count, timestamp |-> t]>>,
                !.floorSamplesPageCache =
                    [k \in DOMAIN @ |-> [@[k] EXCEPT !.totalCount = count]]],
     sto |-> SetStoredFloorSamplesCount(sto, count, t)]

\* getCachedFloorSamplesPage(page, pageSize) at time t: an absent memory entry is
\* refilled from localStorage with the stored timestamp.
GetCachedFloorSamplesPage(mem, sto, page, pageSize, t) ==
    LET key == GetFloorSamplesCacheKey(page, pageSize)
    IN IF key \notin DOMAIN mem.floorSamplesPageCache
       THEN LET stored == GetStoredFloorSamplesPage(sto, page, pageSize, t)
            IN IF stored.value = <<>>
               THEN [value |-> <<>>, mem |-> mem, sto |-> stored.sto]
               ELSE [value |-> stored.value,
                     mem |-> [mem EXCEPT !.floorSamplesPageCache =
                                 Put(@, key,
                                     [products |-> stored.value[1].products,
                                      totalCount |-> stored.value[1].totalCount,
                                      timestamp |-> stored.value[1].timestamp])],
                     sto |-> stored.sto]
       ELSE IF t - mem.floorSamplesPageCache[key].timestamp
                 > FLOOR_SAMPLES_CACHE_DURATION
       THEN [value |-> <<>>,
             mem |-> [mem EXCEPT !.floorSamplesPageCache = Remove(@, key)],
             sto |-> sto]
       ELSE [value |-> <<mem.floorSamplesPageCache[key]>>, mem |-> mem, sto |-> sto]

\* setCachedFloorSamplesPage(page, pageSize, products, totalCount) at time t
SetCachedFloorSamplesPage(mem, sto, page, pageSize, list, totalCount, t) ==
    [mem |-> [mem EXCEPT !.floorSamplesPageCache =
                Put(@, GetFloorSamplesCacheKey(page, pageSize),
                    [products |-> list, totalCount |-> totalCount, timestamp |-> t])],
     sto |-> SetStoredFloorSamplesPage(sto, page, pageSize, list, totalCount, t)]

-----------------------------------------------------------------------------
(* The store reads behind the caches                                       *)

\* The set_items rows a by-id fetch reads.
SetItemsOf(d, id) == {r \in d.set_items : r.product_id = id}

\* How a fetchProductById(id) can end: as FetchOutcomes, the set_item_images read
\* being made only when the product has set items.
ByIdOutcomes(d, id) ==
    IF SetItemsOf(d, id) = {} THEN FetchOutcomes \ {"no_set_item_images"}
    ELSE FetchOutcomes

\* fetchProductById(id): null when the product row is absent (part_005:880-935).
FetchProductById(d, id, withImages) ==
    IF id \notin ProductIds(d) THEN <<>>
    ELSE <<DbToProduct(d.products[id],
                       RowsOf({r \in d.product_images : r.product_id = id}),
                       RowsOf(SetItemsOf(d, id)),
                       IF withImages
                       THEN RowsOf({r \in d.set_item_images :
                                      r.set_item_id \in {i.id : i \in SetItemsOf(d, id)}})
                       ELSE <<>>)>>

\* .order('created_at', { ascending: true }): the ids, oldest first.
RECURSIVE OldestFirst(_)
OldestFirst(ids) ==
    IF ids = {} THEN <<>>
    ELSE LET m == CHOOSE x \in ids : \A y \in ids : x <= y
         IN <<m>> \o OldestFirst(ids \ {m})

\* fetchChildProductsForSet(setId) (part_005:937-951)
FetchChildProductsForSet(d, setId) ==
    LET order == OldestFirst({x \in ProductIds(d) : d.products[x].part_of_set = setId})
    IN [k \in 1..Len(order) |-> DbToProduct(d.products[order[k]], <<>>, <<>>, <<>>)]

\* The list-view product fetchFloorSamplesPage builds from a row (part_005:1516-1537).
ListViewProduct(row) ==
    [id |-> row.id,
     category |-> row.category,
     productType |-> OrUndef(row.product_type),
     isSet |-> row.is_set,
     partOfSet |-> OrUndefId(row.part_of_set),
     canBeSoldSeparately |-> <<row.can_be_sold_separately>>,
     priceOriginal |-> row.price_original,
     discountPercent |-> row.discount_percent,
     priceFinal |-> row.price_final,
     mainImageUrl |-> row.main_image_url,
     imageUrls |-> IF row.main_image_url # Null THEN <<row.main_image_url>> ELSE <<>>,
     setItems |-> <<>>]

\* The floor samples of the store.
FloorSampleIds(d) == {x \in ProductIds(d) : d.products[x].category = "floor_sample"}

\* .eq('category', 'floor_sample').order('is_set', desc).order('created_at', desc)
\* .range(from, to) (part_005:1496-1505)
FloorSamplesRange(d, page, pageSize) ==
    LET order == NewestFirst({x \in FloorSampleIds(d) : d.products[x].is_set})
                 \o NewestFirst({x \in FloorSampleIds(d) : ~d.products[x].is_set})
        from == (page - 1) * pageSize
        to == from + pageSize - 1
        rows == SubSeq(order, from + 1, IF to + 1 < Len(order) THEN to + 1 ELSE Len(order))
    IN [k \in 1..Len(rows) |-> ListViewProduct(d.products[rows[k]])]

\* select('*', { count: 'exact', head: true }).eq('category', 'floor_sample')
FloorSamplesCount(d) == Cardinality(FloorSampleIds(d))

-----------------------------------------------------------------------------
(* The hooks that read through the caches, as actions.  A mount runs the   *)
(* hook's initial render and its effects up to the first await; a request  *)
(* then stays in flight until its Complete action.  The useState           *)
(* initialisers of useProductById and usePublicProducts read the cache at  *)
(* the same instant as the effect and are folded into it.                  *)

Consumers == 1..MaxConsumers

\* The consumer a new component becomes: consumers differ in name only, so a mount
\* takes the first free one.
FirstFree(c) == hooks[c].hook = "none" /\ \A b \in 1..c - 1 : hooks[b].hook # "none"

\* A consumer with no hook mounted.
NoHook ==
    [hook |-> "none", key |-> NullId, product |-> <<>>, parentSet |-> <<>>,
     setChildren |-> <<>>, products |-> <<>>, totalCount |-> 0,
     isLoading |-> FALSE, error |-> Null, fetchInProgress |-> FALSE]

\* A store request in flight: what it asks for, the hook instance that issued it
\* (owner, and seq, the number of the mount) and whether that instance is still
\* mounted (isActive).
Request(region, key, owner, seq) ==
    [region |-> region, key |-> key, owner |-> owner, seq |-> seq, active |-> TRUE]

\* One read of a region: what the memory cache and localStorage held for the key,
\* what was served from them, whether a fetch of the entry was issued (fetch) and how
\* many other store requests the read sent (others).
ReadEvent(region, key, t, held, stored, served, fetch, others) ==
    [region |-> region, key |-> key, at |-> t, held |-> held, stored |-> stored,
     served |-> served, fetch |-> fetch, others |-> others]

\* The end of an entry fetch: whether it succeeded (ok), whether the issuing hook was
\* still mounted (active), whether it found data (found), its result and the memory
\* entry of the key after it (entry).
DoneEvent(f, t, ok, found, result, entry) ==
    [region |-> f.region, key |-> f.key, seq |-> f.seq, at |-> t, ok |-> ok,
     active |-> f.active, found |-> found, result |-> result, entry |-> entry]

NoDone ==
    [region |-> "none", key |-> NullId, seq |-> 0, at |-> 0, ok |-> FALSE,
     active |-> FALSE, found |-> FALSE, result |-> <<>>, entry |-> <<>>]

\* The entry a Map holds for a key, if any.
EntryOf(m, k) == IF k \in DOMAIN m THEN <<m[k]>> ELSE <<>>

IsActiveAlways(f) == TRUE

\* if (!isActive) return: the callback of request f goes on only when the effect
\* that sent f has not been cleaned up.
IsActive(f) == f.active

LoadRelationsChildrenFirst(result, owner, seq) ==
    IF result = <<>> THEN {}
    ELSE IF result[1].isSet
    THEN {Request("children", result[1].id, owner, seq)}
    ELSE IF result[1].partOfSet # UndefId
    THEN {Request("parent", result[1].partOfSet, owner, seq)}
    ELSE {}

\* loadRelations(result): the requests it sends (part_005:976-1009).
LoadRelations(result, owner, seq) ==
    IF result = <<>> THEN {}
    ELSE (IF result[1].isSet
          THEN {Request("children", result[1].id, owner, seq)} ELSE {})
         \cup
         (IF result[1].partOfSet # UndefId
          THEN {Request("parent", result[1].partOfSet, owner, seq)} ELSE {})

\* useProductById(id) mounts (part_005:953-1053).
MountProduct(c, id) ==
    /\ ops < MaxMounts
    /\ hist.hook = "product"
    /\ FirstFree(c)
    /\ \E cached \in {GetCachedProductById(cache, id, now)} :
         LET hit == cached.value # <<>>
             relations == LoadRelations(cached.value, c, ops)
         IN /\ cache' = cached.mem
            /\ hooks' = [hooks EXCEPT ![c] =
                           [NoHook EXCEPT !.hook = "product", !.key = id,
                                          !.product = cached.value,
                                          !.isLoading = ~hit]]
            /\ pending' = pending \cup
                   (IF hit THEN relations ELSE {Request("product", id, c, ops)})
            /\ hist' = [hist EXCEPT !.reads = Append(@,
                   ReadEvent("product", id, now, EntryOf(cache.productByIdCache, id),
                             <<>>, cached.value, IF hit THEN 0 ELSE 1,
                             Cardinality(relations)))]
    /\ ops' = ops + 1
    /\ UNCHANGED <<retry, db, products, error, last, now, ticks, storage>>

\* fetchProductById(id).then(...).catch(...).finally(...) of useProductById
\* (part_005:1028-1048)
CompleteProduct(f) ==
    /\ f \in pending
    /\ f.region = "product"
    /\ \E outcome \in ByIdOutcomes(db, f.key) :
       \E result \in {IF outcome = "failed" THEN <<>>
                      ELSE FetchProductById(db, f.key, outcome = "ok")} :
       \E mem \in {IF IsActive(f) /\ result # <<>>
                   THEN SetCachedProductById(cache, result[1], now) ELSE cache} :
         /\ cache' = mem
         /\ hooks' = IF ~IsActive(f) THEN hooks
                     ELSE [hooks EXCEPT ![f.owner] =
                             [@ EXCEPT !.product = result, !.parentSet = <<>>,
                                       !.setChildren = <<>>, !.isLoading = FALSE,
                                       !.error = IF outcome = "failed"
                                                 THEN "Failed to load product"
                                                 ELSE @]]
         /\ pending' = (pending \ {f}) \cup
                (IF IsActive(f) THEN LoadRelations(result, f.owner, f.seq) ELSE {})
         /\ hist' = [hist EXCEPT !.done =
                DoneEvent(f, now, outcome # "failed", result # <<>>, result,
                          EntryOf(mem.productByIdCache, f.key))]
    /\ UNCHANGED <<retry, db, products, error, last, ops, now, ticks, storage>>

\* How a relation request can end.
RelationOutcomes(f) ==
    IF f.region = "parent" THEN ByIdOutcomes(db, f.key) ELSE {"ok", "failed"}

\* Relation request f ends with outcome: its .then callback runs, or the rejection
\* reaches the catch of Promise.all, which logs it (part_005:985-1008).
RelationSettles(f, outcome) ==
    /\ f \in pending
    /\ f.region \in {"children", "parent"}
    /\ outcome \in RelationOutcomes(f)
    /\ hooks' = IF ~IsActive(f) \/ outcome = "failed" THEN hooks
                ELSE IF f.region = "children"
                THEN [hooks EXCEPT ![f.owner].setChildren =
                         FetchChildProductsForSet(db, f.key)]
                ELSE [hooks EXCEPT ![f.owner].parentSet =
                         FetchProductById(db, f.key, outcome = "ok")]
    /\ pending' = pending \ {f}
    /\ UNCHANGED <<retry, db, products, error, last, ops, now, ticks, cache,
                   storage, hist>>

\* The relation requests of loadRelations resolve (part_005:985-1001).
CompleteRelation(f) == \E outcome \in RelationOutcomes(f) : RelationSettles(f, outcome)

\* usePublicProducts() mounts (part_005:1161-1187): fetchInProgress is the ref of this
\* hook instance.
MountPublic(c) ==
    /\ ops < MaxMounts
    /\ hist.hook = "public"
    /\ FirstFree(c)
    /\ LET fresh == PublicFresh(cache, now)
           list == IF fresh THEN cache.publicProductsCache[1].products ELSE <<>>
           skip == NoHook.fetchInProgress
           fetch == ~fresh /\ ~skip
       IN /\ hooks' = [hooks EXCEPT ![c] =
                         [NoHook EXCEPT !.hook = "public", !.products = list,
                                        !.isLoading = ~fresh,
                                        !.fetchInProgress = fetch]]
          /\ pending' = pending \cup
                 (IF fetch THEN {Request("public", NullId, c, ops)} ELSE {})
          /\ hist' = [hist EXCEPT !.reads = Append(@,
                 ReadEvent("public", NullId, now, cache.publicProductsCache, <<>>,
                           IF fresh THEN <<list>> ELSE <<>>,
                           IF fetch THEN 1 ELSE 0, 0))]
    /\ ops' = ops + 1
    /\ UNCHANGED <<retry, db, products, error, last, now, ticks, cache, storage>>

\* The catalog reads of usePublicProducts resolve or fail (part_005:1189-1310).
CompletePublic(f) ==
    /\ f \in pending
    /\ f.region = "public"
    /\ \E outcome \in OutcomesFor(db) :
       \E mem \in {IF outcome = "failed" THEN cache
                   ELSE [cache EXCEPT !.publicProductsCache =
                           <<[products |-> AssembleCatalog(db, outcome = "ok"),
                              timestamp |-> now]>>]} :
         /\ cache' = mem
         /\ hooks' = IF ~IsActive(f) THEN hooks
                     ELSE [hooks EXCEPT ![f.owner] =
                             [@ EXCEPT !.products =
                                          IF outcome = "failed" THEN @
                                          ELSE mem.publicProductsCache[1].products,
                                       !.isLoading = FALSE,
                                       !.fetchInProgress = FALSE]]
         /\ hist' = [hist EXCEPT !.done =
                DoneEvent(f, now, outcome # "failed", outcome # "failed",
                          IF outcome = "failed" THEN <<>>
                          ELSE <<mem.publicProductsCache[1].products>>,
                          mem.publicProductsCache)]
    /\ pending' = pending \ {f}
    /\ UNCHANGED <<retry, db, products, error, last, ops, now, ticks, storage>>

\* usePaginatedFloorSamples(page, PageSize) mounts: the render-time cache read, the
\* page effect and the count effect (part_005:1576-1640, 1437-1439).
LoadProductsAfterCount(pageHit, page, owner, seq) ==
    IF pageHit \/ cache.floorSamplesCountCache = <<>> THEN {}
    ELSE {Request("page", page, owner, seq)}

\* loadProducts (part_005:1585-1597): on a cache miss the page request is sent.
LoadProducts(pageHit, page, owner, seq) ==
    IF pageHit THEN {} ELSE {Request("page", page, owner, seq)}

MountFloorSamples(c, page) ==
    /\ ops < MaxMounts
    /\ hist.hook = "floor"
    /\ FirstFree(c)
    /\ \E render \in {GetCachedFloorSamplesPage(cache, storage, page, PageSize, now)} :
       \E cachedPage \in {GetCachedFloorSamplesPage(render.mem, render.sto, page,
                                                    PageSize, now)} :
       \E cachedCount \in {GetCachedFloorSamplesCount(cachedPage.mem, cachedPage.sto,
                                                      now)} :
       \E again \in {IF cachedCount.value = <<>>
                     THEN GetCachedFloorSamplesCount(cachedCount.mem, cachedCount.sto,
                                                     now)
                     ELSE cachedCount} :
         LET key == GetFloorSamplesCacheKey(page, PageSize)
             pageHit == cachedPage.value # <<>>
             countHit == again.value # <<>>
             shown == IF pageHit THEN cachedPage.value
                      ELSE render.value
         IN /\ cache' = again.mem
            /\ storage' = again.sto
            /\ hooks' = [hooks EXCEPT ![c] =
                   [NoHook EXCEPT
                      !.hook = "floor", !.key = page,
                      !.products = IF shown = <<>> THEN <<>> ELSE shown[1].products,
                      !.totalCount = IF countHit THEN again.value[1]
                                     ELSE IF shown = <<>> THEN 0
                                     ELSE shown[1].totalCount,
                      !.isLoading = ~pageHit]]
            /\ pending' = pending
                   \cup LoadProducts(pageHit, page, c, ops)
                   \cup (IF countHit THEN {} ELSE {Request("count", NullId, c, ops)})
            /\ hist' = [hist EXCEPT !.reads = @ \o
                   <<ReadEvent("page", page, now,
                               EntryOf(cache.floorSamplesPageCache, key),
                               EntryOf(storage.page, key), cachedPage.value,
                               IF pageHit THEN 0 ELSE 1, 0),
                     ReadEvent("count", NullId, now,
                               cachedPage.mem.floorSamplesCountCache,
                               cachedPage.sto.count, again.value,
                               IF countHit THEN 0 ELSE 1, 0)>>]
    /\ ops' = ops + 1
    /\ UNCHANGED <<retry, db, products, error, last, now, ticks>>

\* fetchFloorSamplesPage resolves or fails inside loadProducts
\* (part_005:1494-1542, 1596-1607): an empty page is returned without being cached.
CompletePage(f) ==
    /\ f \in pending
    /\ f.region = "page"
    /\ \E outcome \in {"ok", "failed"} :
       \E rows \in {FloorSamplesRange(db, f.key, PageSize)} :
       \E cnt \in {GetCachedFloorSamplesCount(cache, storage, now)} :
         LET totalCount == IF cnt.value = <<>> THEN 0 ELSE cnt.value[1]
             set == IF outcome = "failed" THEN [mem |-> cache, sto |-> storage]
                    ELSE IF rows = <<>> THEN [mem |-> cnt.mem, sto |-> cnt.sto]
                    ELSE SetCachedFloorSamplesPage(cnt.mem, cnt.sto, f.key, PageSize,
                                                   rows, totalCount, now)
         IN /\ cache' = set.mem
            /\ storage' = set.sto
            /\ hooks' = IF ~IsActive(f) THEN hooks
                        ELSE IF outcome = "failed"
                        THEN [hooks EXCEPT ![f.owner] =
                                [@ EXCEPT !.products = <<>>, !.isLoading = FALSE]]
                        ELSE [hooks EXCEPT ![f.owner] =
                                [@ EXCEPT !.products = rows,
                                          !.totalCount = totalCount,
                                          !.isLoading = FALSE]]
            /\ hist' = [hist EXCEPT !.done =
                   DoneEvent(f, now, outcome = "ok", outcome = "ok" /\ rows # <<>>,
                             IF outcome = "ok"
                             THEN <<[products |-> rows, totalCount |-> totalCount]>>
                             ELSE <<>>,
                             EntryOf(set.mem.floorSamplesPageCache,
                                     GetFloorSamplesCacheKey(f.key, PageSize)))]
    /\ pending' = pending \ {f}
    /\ UNCHANGED <<retry, db, products, error, last, ops, now, ticks>>

\* The count request of fetchFloorSamplesCount resolves or fails
\* (part_005:1441-1452, 1627-1635).
CompleteCount(f) ==
    /\ f \in pending
    /\ f.region = "count"
    /\ \E outcome \in {"ok", "failed"} :
         LET totalCount == FloorSamplesCount(db)
             set == IF outcome = "failed" THEN [mem |-> cache, sto |-> storage]
                    ELSE SetCachedFloorSamplesCount(cache, storage, totalCount, now)
         IN /\ cache' = set.mem
            /\ storage' = set.sto
            /\ hooks' = IF ~IsActive(f) \/ outcome = "failed" THEN hooks
                        ELSE [hooks EXCEPT ![f.owner].totalCount = totalCount]
            /\ hist' = [hist EXCEPT !.done =
                   DoneEvent(f, now, outcome = "ok", outcome = "ok",
                             IF outcome = "ok" THEN <<totalCount>> ELSE <<>>,
                             set.mem.floorSamplesCountCache)]
    /\ pending' = pending \ {f}
    /\ UNCHANGED <<retry, db, products, error, last, ops, now, ticks>>

\* The page argument of consumer c's usePaginatedFloorSamples changes (setPage in
\* FloorSamples, part_003:19-21): the render reads the cache (part_005:1577), the
\* cleanup of the page effect sets isActive = false for the request of the old page,
\* and the page effect runs for the new page (1582-1615).  The count effect has no
\* dependencies and does not run again (1640).
SetPage(c, page) ==
    /\ ops < MaxMounts
    /\ hooks[c].hook = "floor"
    /\ hooks[c].key # page
    /\ \E render \in {GetCachedFloorSamplesPage(cache, storage, page, PageSize, now)} :
       \E cachedPage \in {GetCachedFloorSamplesPage(render.mem, render.sto, page,
                                                    PageSize, now)} :
         LET key == GetFloorSamplesCacheKey(page, PageSize)
             pageHit == cachedPage.value # <<>>
         IN /\ cache' = cachedPage.mem
            /\ storage' = cachedPage.sto
            /\ hooks' = [hooks EXCEPT ![c] =
                   IF pageHit
                   THEN [@ EXCEPT !.key = page,
                                  !.products = cachedPage.value[1].products,
                                  !.totalCount = cachedPage.value[1].totalCount,
                                  !.isLoading = FALSE]
                   ELSE [@ EXCEPT !.key = page, !.isLoading = TRUE]]
            /\ pending' =
                   {IF f.owner = c /\ f.region = "page"
                    THEN [f EXCEPT !.active = FALSE] ELSE f : f \in pending}
                   \cup LoadProducts(pageHit, page, c, ops)
            /\ hist' = [hist EXCEPT !.reads = Append(@,
                   ReadEvent("page", page, now,
                             EntryOf(cache.floorSamplesPageCache, key),
                             EntryOf(storage.page, key), cachedPage.value,
                             IF pageHit THEN 0 ELSE 1, 0))]
    /\ ops' = ops + 1
    /\ UNCHANGED <<retry, db, products, error, last, now, ticks>>

TotalPagesRoundingDown(totalCount, pageSize) ==
    IF totalCount > 0 THEN totalCount \div pageSize ELSE 0

\* const totalPages = totalCount > 0 ? Math.ceil(totalCount / pageSize) : 0
TotalPages(totalCount, pageSize) ==
    IF totalCount > 0 THEN (totalCount + pageSize - 1) \div pageSize ELSE 0

\* hasMore: totalCount > 0 ? page < totalPages : products.length === pageSize, for
\* the state h of a usePaginatedFloorSamples instance (part_005:1642-1650).
HasMore(h, pageSize) ==
    IF h.totalCount > 0 THEN h.key < TotalPages(h.totalCount, pageSize)
    ELSE Len(h.products) = pageSize

\* The component of consumer c unmounts: the effect cleanups set isActive = false
\* (part_005:1017-1019, 1050-1052, 1612-1614, 1637-1639).  An unmount that no
\* request in flight and no later mount can observe is left out.
Unmount(c) ==
    /\ hooks[c].hook # "none"
    /\ ops < MaxMounts \/ \E f \in pending : f.owner = c /\ f.active
    /\ hooks' = [hooks EXCEPT ![c] = NoHook]
    /\ pending' = {IF f.owner = c THEN [f EXCEPT !.active = FALSE] ELSE f : f \in pending}
    /\ UNCHANGED <<retry, db, products, error, last, ops, now, ticks, cache,
                   storage, hist>>

\* The page is loaded again: the module state starts over, localStorage stays.  A
\* reload that no mount follows is left out.
Reload ==
    /\ ops < MaxMounts
    /\ cache # EmptyMemory \/ pending # {} \/ \E c \in Consumers : hooks[c] # NoHook
    /\ cache' = EmptyMemory
    /\ hooks' = [c \in Consumers |-> NoHook]
    /\ pending' = {}
    /\ UNCHANGED <<retry, db, products, error, last, ops, now, ticks, storage, hist>>

\* The cache duration of the hook in use.
DurationOf(hook) ==
    IF hook = "product" THEN PRODUCT_CACHE_DURATION
    ELSE IF hook = "public" THEN CACHE_DURATION
    ELSE FLOOR_SAMPLES_CACHE_DURATION

\* The clock advances to a millisecond before, to, or to a millisecond past the cache
\* duration of the hook in use.
TickSteps == {DurationOf(hist.hook) - 1, DurationOf(hist.hook), DurationOf(hist.hook) + 1}

Tick ==
    /\ ticks < MaxTicks
    /\ \E d \in TickSteps : now' = now + d
    /\ ticks' = ticks + 1
    /\ UNCHANGED <<retry, db, products, error, last, ops, cache, storage, hooks,
                   pending, hist>>

\* A floor-sample set of one item, as addProduct stores it.
SetCatalog ==
    AddProductRun(EmptyDb,
                  CHOOSE p \in InputsOver({}) :
                      p.category = "floor_sample" /\ Len(p.setItems) = 1,
                  0).db

\* The product ids a visitor may open: those of the store and one it does not hold.
VisitedIds == ProductIds(db) \cup {db.nextProductId}

\* The hooks.  Their caches share no state, so a behaviour mounts one kind of hook
\* (hist.hook), in any number of consumers.
HookKinds == {"product", "public", "floor"}

\* No hook mounted, nothing cached, nothing in flight.
CacheIdle ==
    /\ now = 0
    /\ ticks = 0
    /\ cache = EmptyMemory
    /\ storage = EmptyStorage
    /\ hooks = [c \in Consumers |-> NoHook]
    /\ pending = {}
    /\ hist \in [hook : HookKinds, reads : {<<>>}, done : {NoDone}]

-----------------------------------------------------------------------------
(* Specifications                                                          *)

\* No call made yet.
NoCall ==
    [op |-> "none", id |-> NullId, input |-> NoInput, ok |-> TRUE,
     fetch |-> "none", clean |-> TRUE, pre |-> EmptyDb,
     reads |-> 0, writes |-> 0, wfail |-> FALSE]

InitMutations ==
    /\ retry = RetryIdle
    /\ db = EmptyDb
    /\ products = <<>>
    /\ error = Null
    /\ last = NoCall
    /\ ops = 0
    /\ CacheIdle

NextMutations == FetchProducts \/ AddProduct \/ UpdateProduct \/ DeleteProduct

SpecMutations == InitMutations /\ [][NextMutations]_vars

-----------------------------------------------------------------------------
(* withRetry as a specification                                            *)

InitRetry ==
    /\ \E r \in 0..MaxRetries : retry = RetryStart(r, DefaultDelay)
    /\ db = EmptyDb
    /\ products = <<>>
    /\ error = Null
    /\ last = NoCall
    /\ ops = 0
    /\ CacheIdle

NextRetry == RetryInvoke \/ RetryWake

SpecRetry == InitRetry /\ [][NextRetry]_vars

-----------------------------------------------------------------------------
(* The caches as a specification: the store is fixed, the hooks mount,     *)
(* their requests complete, time passes.                                   *)

InitCache ==
    /\ retry = RetryIdle
    /\ db \in {EmptyDb, SetCatalog}
    /\ products = <<>>
    /\ error = Null
    /\ last = NoCall
    /\ ops = 0
    /\ CacheIdle

NextCache ==
    \/ \E c \in Consumers : \E id \in VisitedIds : MountProduct(c, id)
    \/ \E f \in pending : CompleteProduct(f)
    \/ \E f \in pending : CompleteRelation(f)
    \/ \E c \in Consumers : MountPublic(c)
    \/ \E f \in pending : CompletePublic(f)
    \/ \E c \in Consumers : \E page \in 1..MaxPage : MountFloorSamples(c, page)
    \/ \E f \in pending : CompletePage(f)
    \/ \E f \in pending : CompleteCount(f)
    \/ \E c \in Consumers : Unmount(c)
    \/ Reload
    \/ Tick

SpecCache == InitCache /\ [][NextCache]_vars

-----------------------------------------------------------------------------
(* The site as a specification: visitors' hooks read through the caches    *)
(* while the admin page, which has loaded the catalog, makes one           *)
(* useProducts call.  The mutation paths of useProducts (part_005:258-779) *)
(* touch none of the cache regions.                                        *)

InitSite ==
    /\ retry = RetryIdle
    /\ db = SetCatalog
    /\ products = AssembleCatalog(db, TRUE)
    /\ error = Null
    /\ last = NoCall
    /\ ops = 0
    /\ CacheIdle

\* The admin's call, made once, after a visitor's hook has mounted and while another
\* mount can follow: a call that no cache entry precedes, or that no read follows, is
\* left out.
AdminTurn == last.op = "none" /\ 0 < ops /\ ops < MaxMounts

AdminAddProduct == AdminTurn /\ AddProductCall /\ UNCHANGED ops
AdminUpdateProduct == AdminTurn /\ UpdateProductCall /\ UNCHANGED ops
AdminDeleteProduct == AdminTurn /\ DeleteProductCall /\ UNCHANGED ops

NextSite ==
    \/ \E c \in Consumers : \E id \in VisitedIds : MountProduct(c, id)
    \/ \E f \in pending : CompleteProduct(f)
    \/ \E f \in pending : CompleteRelation(f)
    \/ \E c \in Consumers : MountPublic(c)
    \/ \E f \in pending : CompletePublic(f)
    \/ \E c \in Consumers : \E page \in 1..MaxPage : MountFloorSamples(c, page)
    \/ \E f \in pending : CompletePage(f)
    \/ \E f \in pending : CompleteCount(f)
    \/ AdminAddProduct
    \/ AdminUpdateProduct
    \/ AdminDeleteProduct

SpecSite == InitSite /\ [][NextSite]_vars

-----------------------------------------------------------------------------
(* The update path as a specification: useProducts has loaded a set of one *)
(* item and updateProduct is called with inputs of its parameter type.     *)

InitTyped ==
    /\ retry = RetryIdle
    /\ db = SetCatalog
    /\ products = AssembleCatalog(db, TRUE)
    /\ error = Null
    /\ last = NoCall
    /\ ops = 0
    /\ now = 0
    /\ ticks = 0
    /\ cache = EmptyMemory
    /\ storage = EmptyStorage
    /\ hooks = [c \in Consumers |-> NoHook]
    /\ pending = {}
    /\ hist = [hook |-> "none", reads |-> <<>>, done |-> NoDone]

NextTyped == UpdateProductTyped

SpecTyped == InitTyped /\ [][NextTyped]_vars

-----------------------------------------------------------------------------
(* The product page as a specification: useProductById over a store in     *)
(* which product 2 is an item of set 1 and a set itself, with item 3.      *)

\* The item of SetCatalog edited to be a set of one item.
RelationsCatalog ==
    UpdateProductRun(SetCatalog, 2,
                     CHOOSE p \in InputsOver({}) :
                         p.category = "floor_sample" /\ Len(p.setItems) = 1,
                     0).db

InitRelations ==
    /\ retry = RetryIdle
    /\ db = RelationsCatalog
    /\ products = <<>>
    /\ error = Null
    /\ last = NoCall
    /\ ops = 0
    /\ now = 0
    /\ ticks = 0
    /\ cache = EmptyMemory
    /\ storage = EmptyStorage
    /\ hooks = [c \in Consumers |-> NoHook]
    /\ pending = {}
    /\ hist = [hook |-> "product", reads |-> <<>>, done |-> NoDone]

NextRelations ==
    \/ \E c \in Consumers : \E id \in VisitedIds : MountProduct(c, id)
    \/ \E f \in pending : CompleteProduct(f)
    \/ \E f \in pending : CompleteRelation(f)
    \/ \E c \in Consumers : Unmount(c)

SpecRelations == InitRelations /\ [][NextRelations]_vars

-----------------------------------------------------------------------------
(* Parameter changes as a specification: components using useProductById   *)
(* or usePaginatedFloorSamples mount, change page and unmount while their  *)
(* requests are in flight.  A component that mounts where another has      *)
(* unmounted is the same hook called with a new id.                        *)

InitStale ==
    /\ retry = RetryIdle
    /\ db = RelationsCatalog
    /\ products = <<>>
    /\ error = Null
    /\ last = NoCall
    /\ ops = 0
    /\ now = 0
    /\ ticks = 0
    /\ cache = EmptyMemory
    /\ storage = EmptyStorage
    /\ hooks = [c \in Consumers |-> NoHook]
    /\ pending = {}
    /\ hist \in [hook : {"product", "floor"}, reads : {<<>>}, done : {NoDone}]

NextStale ==
    \/ \E c \in Consumers : \E id \in VisitedIds : MountProduct(c, id)
    \/ \E f \in pending : CompleteProduct(f)
    \/ \E f \in pending : CompleteRelation(f)
    \/ \E c \in Consumers : \E page \in 1..LastPage : MountFloorSamples(c, page)
    \/ \E c \in Consumers : \E page \in 1..LastPage : SetPage(c, page)
    \/ \E f \in pending : CompletePage(f)
    \/ \E f \in pending : CompleteCount(f)
    \/ \E c \in Consumers : Unmount(c)

SpecStale == InitStale /\ [][NextStale]_vars

-----------------------------------------------------------------------------
(* The record assembler as a specification: dbToProduct is called once on  *)
(* a product row and on row arrays in every order.                         *)

\* The arrays that hold each row of S at most once, in any order.
Arrangements(S) ==
    {a \in UNION {[1..n -> S] : n \in 0..Cardinality(S)} :
        \A i, j \in DOMAIN a : i # j => a[i] # a[j]}

\* The url of the image with display order o.
OrderUrl(o) == <<"order0", "order1", "order2">>[o + 1]

\* product_images rows of product 1 with display orders 0..MaxImages-1.
ImageRows ==
    {[product_id |-> 1, image_url |-> OrderUrl(o), display_order |-> o]
        : o \in 0..(MaxImages - 1)}

\* set_items rows of product 1, without child product.
ItemRows ==
    {[id |-> k, product_id |-> 1, price |-> 10 * k, image_url |-> Null,
      display_order |-> k - 1, child_product_id |-> NullId] : k \in 1..MaxSetItems}

\* set_item_images rows of set item 1.
ItemImageRows ==
    {[set_item_id |-> 1, image_url |-> <<"item0", "item1">>[o + 1], display_order |-> o]
        : o \in 0..1}

\* The product row: main_image_url is a column of its own.
ProductRows ==
    {[SetCatalog.products[1] EXCEPT !.main_image_url = u]
        : u \in {OrderUrl(0), OrderUrl(1), "fallback"}}

InitAssemble ==
    /\ retry = RetryIdle
    /\ db = EmptyDb
    /\ products = <<>>
    /\ error = Null
    /\ last = NoCall
    /\ ops = 0
    /\ now = 0
    /\ ticks = 0
    /\ cache = EmptyMemory
    /\ storage = EmptyStorage
    /\ hooks = [c \in Consumers |-> NoHook]
    /\ pending = {}
    /\ \E dbProduct \in ProductRows, images \in Arrangements(ImageRows),
          setItems \in Arrangements(ItemRows),
          setItemImages \in Arrangements(ItemImageRows) :
         hist = [hook |-> "none",
                 args |-> [dbProduct |-> dbProduct, images |-> images,
                           setItems |-> setItems, setItemImages |-> setItemImages],
                 after |-> [dbProduct |-> dbProduct, images |-> images,
                            setItems |-> setItems, setItemImages |-> setItemImages],
                 result |-> <<>>]

\* dbToProduct(dbProduct, images, setItems, setItemImages) is called and returns.
DbToProductCall ==
    /\ hist.result = <<>>
    /\ hist' = [hist EXCEPT
         !.result = <<DbToProduct(hist.args.dbProduct, hist.args.images,
                                  hist.args.setItems, hist.args.setItemImages)>>,
         !.after = Merge([dbProduct |-> hist.args.dbProduct],
                         DbToProductLeaves(hist.args.images, hist.args.setItems,
                                           hist.args.setItemImages))]
    /\ UNCHANGED <<retry, db, products, error, last, ops, now, ticks>>
    /\ UNCHANGED <<cache, storage, hooks, pending>>

NextAssemble == DbToProductCall

SpecAssemble == InitAssemble /\ [][NextAssemble]_vars

-----------------------------------------------------------------------------
(* The admin catalog with a fetch in flight as a specification: the reads  *)
(* of fetchProducts are awaited, so a call of the admin can start and      *)
(* resolve between the moment the store answers a fetch and the moment the *)
(* fetch reaches setProducts.  pending holds the fetches in flight, each   *)
(* with the store its selects saw.                                         *)

\* A fetchProducts invocation whose selects the store has answered.
CatalogRequest(d, seq) == [db |-> d, seq |-> seq]

\* setProducts(frontendProducts) of a resolving fetch: the rows it read, whatever the
\* list holds by then; no request id or version is compared.
FetchResolvedListFresh(f, outcome, prev) ==
    IF f.db # db THEN prev ELSE FetchProductsList(f.db, outcome, prev)
FetchResolvedList(f, outcome, prev) == FetchProductsList(f.db, outcome, prev)

InitRace ==
    /\ retry = RetryIdle
    /\ db = SetCatalog
    /\ products = <<>>
    /\ error = Null
    /\ last = NoCall
    /\ ops = 0
    /\ now = 0
    /\ ticks = 0
    /\ cache = EmptyMemory
    /\ storage = EmptyStorage
    /\ hooks = [c \in Consumers |-> NoHook]
    /\ pending = {}
    /\ hist = [hook |-> "admin", reads |-> <<>>, done |-> NoDone]

\* fetchProducts is invoked (the mount effect, or refresh) and the store answers.
FetchProductsStart ==
    /\ ops < MaxOps
    /\ pending' = pending \cup {CatalogRequest(db, ops)}
    /\ ops' = ops + 1
    /\ error' = Null
    /\ UNCHANGED <<retry, db, products, last, now, ticks, cache, storage, hooks, hist>>

\* The fetch reaches setProducts, or its catch block.
FetchProductsResolve(f) ==
    /\ \E outcome \in OutcomesFor(f.db) :
         /\ products' = FetchResolvedList(f, outcome, products)
         /\ error' = FetchProductsError(outcome)
    /\ pending' = pending \ {f}
    /\ UNCHANGED <<retry, db, last, ops, now, ticks, cache, storage, hooks, hist>>

\* One call of the admin, at any moment.
RaceAddProduct == last.op = "none" /\ AddProductCall /\ UNCHANGED ops
RaceUpdateProduct == last.op = "none" /\ UpdateProductCall /\ UNCHANGED ops
RaceDeleteProduct == last.op = "none" /\ DeleteProductCall /\ UNCHANGED ops

NextRace ==
    \/ FetchProductsStart
    \/ \E f \in pending : FetchProductsResolve(f)
    \/ RaceAddProduct
    \/ RaceUpdateProduct
    \/ RaceDeleteProduct

SpecRace == InitRace /\ [][NextRace]_vars

-----------------------------------------------------------------------------
(* The floor-sample count as a specification: fetchFloorSamplesCount is    *)
(* called at several times, the page being reloaded in between;            *)
(* hist.fetchedAt is the time the count now cached came from the store,    *)
(* and each read records it.                                               *)

InitCount ==
    /\ retry = RetryIdle
    /\ db = SetCatalog
    /\ products = <<>>
    /\ error = Null
    /\ last = NoCall
    /\ ops = 0
    /\ now = 0
    /\ ticks = 0
    /\ cache = EmptyMemory
    /\ storage \in {[EmptyStorage EXCEPT !.mode = m] : m \in StorageModes}
    /\ hooks = [c \in Consumers |-> NoHook]
    /\ pending = {}
    /\ hist = [hook |-> "floor", reads |-> <<>>, done |-> NoDone, fetchedAt |-> <<>>]

\* fetchFloorSamplesCount() (part_005:1436-1452): the cached count, or the store's,
\* which is then cached.
FetchFloorSamplesCount ==
    /\ ops < MaxCountReads
    /\ \E cached \in {GetCachedFloorSamplesCount(cache, storage, now)} :
       \E outcome \in IF cached.value # <<>> THEN {"cached"} ELSE {"ok", "failed"} :
         LET totalCount == FloorSamplesCount(db)
             set == IF outcome = "ok"
                    THEN SetCachedFloorSamplesCount(cached.mem, cached.sto, totalCount, now)
                    ELSE [mem |-> cached.mem, sto |-> cached.sto]
             read == ReadEvent("count", NullId, now, cache.floorSamplesCountCache,
                               storage.count, cached.value,
                               IF outcome = "cached" THEN 0 ELSE 1, 0)
         IN /\ cache' = set.mem
            /\ storage' = set.sto
            /\ hist' = [hist EXCEPT
                   !.reads = @ \o <<Merge(read, [fetchedAt |-> hist.fetchedAt])>>,
                   !.fetchedAt = IF outcome = "ok" THEN <<now>> ELSE @]
    /\ ops' = ops + 1
    /\ UNCHANGED <<retry, db, products, error, last, now, ticks, hooks, pending>>

NextCount == FetchFloorSamplesCount \/ Tick \/ Reload

SpecCount == InitCount /\ [][NextCount]_vars

-----------------------------------------------------------------------------
(* updateProduct with readers as a specification: the store calls of       *)
(* updateProduct are awaited one by one, so the fetch of a visitor can     *)
(* read the store between two of them.  pending holds the update in        *)
(* flight with the number of the tested store call it is about to issue;   *)
(* products is what the visitor's last fetch assembled.  No store call     *)
(* fails here.                                                             *)

\* An updateProduct(id, input) in flight, called on store pre.
UpdateInFlight(id, p, pre, step) == [id |-> id, input |-> p, pre |-> pre, step |-> step]

\* The store when updateProduct u is about to issue its k-th tested call: the calls
\* before it have been applied (part_005:479-678).
StoreBeforeCall(u, k) == UpdateProductRun(u.pre, u.id, u.input, k).db

\* The store when updateProduct u has issued all its calls.
StoreAfterUpdate(u) == UpdateProductRun(u.pre, u.id, u.input, 0).db

InitUpdating ==
    /\ retry = RetryIdle
    /\ db = SetCatalog
    /\ products = <<>>
    /\ error = Null
    /\ last = NoCall
    /\ ops = 0
    /\ now = 0
    /\ ticks = 0
    /\ cache = EmptyMemory
    /\ storage = EmptyStorage
    /\ hooks = [c \in Consumers |-> NoHook]
    /\ pending = {}
    /\ hist = [hook |-> "public", reads |-> <<>>, done |-> NoDone]

\* The admin calls updateProduct from the edit form of a listed product.
UpdateProductStarts ==
    /\ last.op = "none"
    /\ \E id \in ProductIds(db) :
       \E p \in InputsOver(LinksInList(AssembleCatalog(db, TRUE), id)) :
         /\ db.nextProductId + Cardinality(Unlinked(p)) <= MaxProducts + 1
         /\ pending' = {UpdateInFlight(id, p, db, 1)}
         /\ last' = [NoCall EXCEPT !.op = "update", !.id = id, !.input = p, !.pre = db]
    /\ UNCHANGED <<retry, db, products, error, ops, now, ticks, cache, storage, hooks,
                   hist>>

\* The tested call the update is about to issue succeeds, and the update goes on to
\* its next tested call, or to its end.
UpdateProductAdvances(u) ==
    /\ IF u.step = UpdateProductRun(u.pre, u.id, u.input, 0).n
       THEN /\ db' = StoreAfterUpdate(u)
            /\ pending' = {}
       ELSE /\ db' = StoreBeforeCall(u, u.step + 1)
            /\ pending' = {[u EXCEPT !.step = @ + 1]}
    /\ UNCHANGED <<retry, products, error, last, ops, now, ticks, cache, storage, hooks,
                   hist>>

\* usePublicProducts.fetchProducts reads the store and assembles the catalog
\* (part_005:1189-1304).
CatalogFetch ==
    /\ ops < MaxOps
    /\ products' = AssembleCatalog(db, TRUE)
    /\ ops' = ops + 1
    /\ UNCHANGED <<retry, db, error, last, now, ticks, cache, storage, hooks, pending,
                   hist>>

\* fetchProductById(id) reads the store and assembles the product (part_005:880-935).
ProductFetch(id) ==
    /\ ops < MaxOps
    /\ products' = FetchProductById(db, id, TRUE)
    /\ ops' = ops + 1
    /\ UNCHANGED <<retry, db, error, last, now, ticks, cache, storage, hooks, pending,
                   hist>>

NextUpdating ==
    \/ UpdateProductStarts
    \/ \E u \in pending : UpdateProductAdvances(u)
    \/ CatalogFetch
    \/ \E id \in ProductIds(db) : ProductFetch(id)

SpecUpdating == InitUpdating /\ [][NextUpdating]_vars

-----------------------------------------------------------------------------
(* The floor-sample pages as a specification: a store of three floor       *)
(* samples that answers every request, read PageSize at a time by          *)
(* usePaginatedFloorSamples, whose page changes (the cleanup of the page   *)
(* effect is then the one an unmount runs); localStorage may be missing,   *)
(* refuse access, be full, or hold strings that do not parse.              *)

\* A floor-sample set of two items: the parent and its two children.
PagesCatalog ==
    AddProductRun(EmptyDb,
                  CHOOSE p \in InputsOver({}) :
                      p.category = "floor_sample" /\ Len(p.setItems) = 2,
                  0).db

\* localStorage holding, for page 1 and for the count, strings that do not parse.
GarbledStorage ==
    [page |-> Put(<<>>, GetFloorSamplesCacheKey(1, PageSize),
                  [products |-> <<>>, totalCount |-> 0, timestamp |-> 0,
                   parses |-> FALSE]),
     count |-> <<[count |-> 0, timestamp |-> 0, parses |-> FALSE]>>,
     mode |-> "ok"]

\* localStorage holding page 1 and the count from an earlier visit, now throwing on
\* every access.
LockedStorage ==
    [page |-> Put(<<>>, GetFloorSamplesCacheKey(1, PageSize),
                  [products |-> FloorSamplesRange(PagesCatalog, 1, PageSize),
                   totalCount |-> FloorSamplesCount(PagesCatalog), timestamp |-> 0,
                   parses |-> TRUE]),
     count |-> <<[count |-> FloorSamplesCount(PagesCatalog), timestamp |-> 0,
                  parses |-> TRUE]>>,
     mode |-> "denied"]

InitPages ==
    /\ retry = RetryIdle
    /\ db = PagesCatalog
    /\ products = <<>>
    /\ error = Null
    /\ last = NoCall
    /\ ops = 0
    /\ now = 0
    /\ ticks = 0
    /\ cache = EmptyMemory
    /\ storage \in {[EmptyStorage EXCEPT !.mode = m] : m \in StorageModes \ {"denied"}}
                   \cup {GarbledStorage, LockedStorage}
    /\ hooks = [c \in Consumers |-> NoHook]
    /\ pending = {}
    /\ hist = [hook |-> "floor", reads |-> <<>>, done |-> NoDone]

\* The store answers the page request, the count request.
PageLoaded(f) == CompletePage(f) /\ hist'.done.ok
CountLoaded(f) == CompleteCount(f) /\ hist'.done.ok

NextPages ==
    \/ \E c \in Consumers : \E page \in 1..LastPage : MountFloorSamples(c, page)
    \/ \E c \in Consumers : \E page \in 1..LastPage : SetPage(c, page)
    \/ \E f \in pending : PageLoaded(f)
    \/ \E f \in pending : CountLoaded(f)
    \/ Reload
    \/ Tick

SpecPages == InitPages /\ [][NextPages]_vars

-----------------------------------------------------------------------------
(* Properties of withRetry                                                 *)

RetryCalls == Len(retry.outcomes)

\* C1: withRetry invokes fn at most retries + 1 times (3 with the defaults), never
\* again after a success; it returns the value of the first success, and rejects
\* only after retries + 1 failures, with the error of the last attempt.
C1_RetryBound ==
    /\ RetryCalls <= retry.retries + 1
    /\ retry.retries = DefaultRetries => RetryCalls <= 3
    /\ \A k \in 1..RetryCalls - 1 : ~retry.outcomes[k].ok
    /\ retry.pc = "returned" <=> (RetryCalls > 0 /\ retry.outcomes[RetryCalls].ok)
    /\ retry.pc = "returned" => retry.result = retry.outcomes[RetryCalls].val
    /\ retry.pc = "rejected" =>
          /\ RetryCalls = retry.retries + 1
          /\ \A k \in 1..RetryCalls : ~retry.outcomes[k].ok
          /\ retry.thrown = retry.outcomes[RetryCalls].val

\* Three failed attempts under the defaults, rejected with the third error.
C1_Witness ==
    /\ retry.pc = "rejected"
    /\ retry.retries = DefaultRetries
    /\ RetryCalls = 3
    /\ retry.outcomes[1].val # retry.outcomes[3].val
    /\ retry.thrown = retry.outcomes[3].val

-----------------------------------------------------------------------------
(* Properties of the mutations                                             *)

Mutations == {"add", "update", "delete"}

\* The set_items rows of product id in store d.
ItemsOf(d, id) == {r \in d.set_items : r.product_id = id}

\* The products of store d whose part_of_set is id.
ChildrenOf(d, id) == {x \in ProductIds(d) : d.products[x].part_of_set = id}

\* The product rows the last call inserted.
Created == {x \in ProductIds(db) : x >= last.pre.nextProductId}

\* C2: when a mutation has rejected and the re-fetch it forces has succeeded, the
\* client list is the catalog assembled from the store as it then stands.
C2_FailureRecovery ==
    (last.op \in Mutations /\ ~last.ok /\ last.fetch = "ok") =>
        products = AssembleCatalog(db, TRUE)

\* An update that failed after it had deleted the old set items and written a child,
\* so the store differs from the one before the call, and the re-fetch succeeded.
C2_Witness ==
    /\ last.op = "update" /\ ~last.ok /\ last.fetch = "ok"
    /\ HasSetItems(last.input)
    /\ ItemsOf(last.pre, last.id) # {}
    /\ ItemsOf(db, last.id) = {}
    /\ db # last.pre

\* C3: a successful addProduct with n >= 1 set items creates exactly n child rows,
\* each with part_of_set the new parent, can_be_sold_separately true, is_set false,
\* discount_percent 0, the price of its item and the parent's category and product
\* type; the i-th set-item row carries the id of the i-th child.
C3_AddCreatesChildren ==
    (last.op = "add" /\ last.ok /\ HasSetItems(last.input)) =>
        LET p == last.input
            n == Len(p.setItems)
            parent == last.id
            children == Created \ {parent}
        IN /\ parent \in Created
           /\ db.products[parent].is_set
           /\ Cardinality(children) = n
           /\ children = {parent + i : i \in 1..n}
           /\ Cardinality(ItemsOf(db, parent)) = n
           /\ \A i \in 1..n :
                LET row == db.products[parent + i]
                IN /\ row.part_of_set = parent
                   /\ row.can_be_sold_separately = TRUE
                   /\ row.is_set = FALSE
                   /\ row.discount_percent = 0
                   /\ row.price_original = p.setItems[i].price
                   /\ row.price_final = p.setItems[i].price
                   /\ row.category = p.category
                   /\ row.product_type = OrNull(p.productType)
                   /\ \E r \in ItemsOf(db, parent) :
                        /\ r.display_order = i - 1
                        /\ r.child_product_id = parent + i

\* A discounted set of two items has been added.
C3_Witness ==
    /\ last.op = "add" /\ last.ok
    /\ Len(last.input.setItems) = 2
    /\ last.input.discountPercent > 0
    /\ Cardinality(ChildrenOf(db, last.id)) = 2

\* The child products the input of the last call links to.
LinkedChildren ==
    {last.input.setItems[k].childProductId :
        k \in (1..Len(last.input.setItems)) \ Unlinked(last.input)}

\* The children product id had before the last call, by its set_items rows.
ChildrenBefore == {r.child_product_id : r \in ItemsOf(last.pre, last.id)} \ {NullId}

C6_DeleteChildKeepsRow ==
    (/\ last.op = "delete" /\ last.ok
     /\ last.id \in ProductIds(last.pre)
     /\ last.pre.products[last.id].part_of_set # NullId) =>
        db.set_items =
            {IF r.child_product_id = last.id
             THEN [r EXCEPT !.child_product_id = NullId] ELSE r :
                r \in {r \in last.pre.set_items : r.product_id # last.id}}

\* C7: when every call so far has succeeded, a product has is_set true exactly when
\* it has at least one set_items row.
C7_IsSetIffHasItems ==
    last.clean =>
        \A id \in ProductIds(db) : db.products[id].is_set <=> ItemsOf(db, id) # {}

\* C12: deleteProduct removes the product from the client list before its store
\* requests (so the product is absent even when the re-fetch fails); when the store's
\* delete reports an error the catalog is re-fetched, the product the store still
\* holds is listed again, and the call rejects; when the delete succeeds there is no
\* re-fetch and the product stays removed.
C12_DeleteOptimistic ==
    last.op = "delete" =>
        /\ last.ok <=> ~last.wfail
        /\ last.ok => /\ last.fetch = "none"
                      /\ last.id \notin ListIds(products)
                      /\ last.id \notin ProductIds(db)
        /\ ~last.ok =>
              /\ last.fetch \in FetchOutcomes
              /\ last.fetch # "failed" =>
                    /\ products = AssembleCatalog(db, last.fetch = "ok")
                    /\ last.id \in ProductIds(db) => last.id \in ListIds(products)
              /\ last.fetch = "failed" => last.id \notin ListIds(products)

\* A delete of a stored product failed at the store and the re-fetch listed the
\* product again.
C12_Witness ==
    /\ last.op = "delete" /\ ~last.ok /\ last.fetch = "ok"
    /\ last.id \in ProductIds(last.pre)
    /\ last.id \in ListIds(products)

\* 1 for a store write the handler makes under condition b, 0 otherwise.
One(b) == IF b THEN 1 ELSE 0

\* The sum of f over 1..n.
RECURSIVE Sum(_, _)
Sum(f, n) == IF n = 0 THEN 0 ELSE f[n] + Sum(f, n - 1)

\* The writes the handlers have for the child of set item k: the child's row, and
\* its images when the item has any, after a delete of the old ones when the child
\* is updated in place.
ChildWrites(p, k, inPlace) ==
    1 + One(inPlace) + One(Len(ItemImageUrls(p.setItems[k])) > 0)

\* The writes the handlers have for the set_items rows and their images.
SetItemWrites(p) ==
    IF HasSetItems(p)
    THEN 1 + One(\E k \in 1..Len(p.setItems) : Len(p.setItems[k].imageUrls) > 0)
    ELSE 0

\* The distinct store writes the last call has for its input and the store it found.
WritesNeeded ==
    IF last.op = "add"
    THEN 1 + One(Len(last.input.imageUrls) > 0)
         + Sum([k \in 1..Len(last.input.setItems) |-> ChildWrites(last.input, k, FALSE)],
               Len(last.input.setItems))
         + SetItemWrites(last.input)
    ELSE IF last.op = "update"
    THEN 2 + One(Len(last.input.imageUrls) > 0)
         + One(ItemsOf(last.pre, last.id) # {}) + 1
         + Sum([k \in 1..Len(last.input.setItems) |->
                   ChildWrites(last.input, k, k \notin Unlinked(last.input))],
               Len(last.input.setItems))
         + SetItemWrites(last.input)
         + One(ChildrenBefore \ LinkedChildren # {})
    ELSE IF last.id \in ProductIds(last.pre)
    THEN One(last.pre.products[last.id].part_of_set # NullId)
         + One(last.pre.products[last.id].is_set /\ ChildrenOf(last.pre, last.id) # {})
         + 1
    ELSE 1

\* C13: a mutation issues each of its store writes at most once (all of them when it
\* succeeds), and a write that reported an error in addProduct or updateProduct is
\* followed by one re-fetch of the catalog and the rejection of the call.
C13_WritesOnceFailureRejects ==
    last.op \in Mutations =>
        /\ last.writes <= WritesNeeded
        /\ last.ok => last.writes = WritesNeeded
        /\ (last.op \in {"add", "update"} /\ last.wfail) =>
              ~last.ok /\ last.fetch \in FetchOutcomes

-----------------------------------------------------------------------------
(* Properties of the caches                                                *)

Reads == {hist.reads[k] : k \in 1..Len(hist.reads)}

\* The cache duration of a region.
Ttl(region) ==
    IF region = "product" THEN PRODUCT_CACHE_DURATION
    ELSE IF region = "public" THEN CACHE_DURATION
    ELSE IF region = "page" THEN FLOOR_SAMPLES_CACHE_DURATION
    ELSE FLOOR_SAMPLES_COUNT_CACHE_DURATION

\* The age, at read e, of the memory entry it found.
HeldAge(e) == e.at - e.held[1].timestamp

\* Read e found a memory entry younger than the cache duration.
Live(e) == e.held # <<>> /\ HeldAge(e) < Ttl(e.region)

\* What a read is served from the memory entry it found.
Content(e) ==
    IF e.region = "product" THEN <<e.held[1].product>>
    ELSE IF e.region = "public" THEN <<e.held[1].products>>
    ELSE IF e.region = "count" THEN <<e.held[1].count>>
    ELSE e.held

\* The relation requests useProductById sends for a product.
RelationsOf(p) ==
    (IF p.isSet THEN 1 ELSE 0) + (IF p.partOfSet # UndefId THEN 1 ELSE 0)

\* The fetch whose end is recorded kept its result: a by-id fetch only when its hook
\* was still mounted and the product exists, a page fetch only when it returned rows.
Kept(d) ==
    IF d.region = "product" THEN d.active /\ d.found
    ELSE IF d.region = "page" THEN d.found
    ELSE TRUE

\* The memory entry left by the recorded fetch carries its result and its time.
StoredFresh(d) ==
    /\ d.entry # <<>>
    /\ d.entry[1].timestamp = d.at
    /\ IF d.region = "product" THEN d.entry[1].product = d.result[1]
       ELSE IF d.region = "public" THEN d.entry[1].products = d.result[1]
       ELSE IF d.region = "page" THEN d.entry[1].products = d.result[1].products
       ELSE d.entry[1].count = d.result[1]

\* C8 as stated: a read that finds a live entry returns it and sends no request at
\* all, a fetch is issued only for a missing or expired entry, and every successful
\* fetch stores its result with a fresh timestamp.
C8_LiveReadSendsNothing ==
    /\ \A e \in Reads :
         /\ Live(e) => e.served = Content(e) /\ e.fetch = 0 /\ e.others = 0
         /\ e.fetch = 1 => ~Live(e)
    /\ hist.done.ok => StoredFresh(hist.done)

\* C8: a read that finds a live entry (age < TTL) returns that entry and issues no
\* fetch of it; the by-id read still requests the relations of the product (the
\* children of a set, the parent of a child) and no region sends anything else; a
\* fetch is issued only when the memory entry is missing or expired; a successful
\* fetch stores its result with the time of its completion, provided it is kept (a
\* by-id fetch whose hook is still mounted and whose product exists, a page fetch
\* that returned rows, any catalog or count fetch).
C8_LiveReadServesEntry ==
    /\ \A e \in Reads :
         /\ Live(e) =>
              /\ e.served = Content(e)
              /\ e.fetch = 0
              /\ e.others = IF e.region = "product"
                            THEN RelationsOf(e.held[1].product) ELSE 0
         /\ e.fetch = 1 => ~Live(e) /\ e.served = <<>> /\ e.others = 0
    /\ (hist.done.ok /\ Kept(hist.done)) => StoredFresh(hist.done)

\* A cached set is opened again within the cache duration: it is served from the
\* cache and its children are requested from the store.
C8_Witness ==
    \E e \in Reads :
        /\ e.region = "product"
        /\ Live(e)
        /\ HeldAge(e) > 0
        /\ e.held[1].product.isSet
        /\ e.others = 1

\* The entry read e found can be served: a memory entry until its age exceeds the
\* cache duration (for the public catalog, until it reaches it); without a memory
\* entry, a stored page or count until its age exceeds the duration.
Servable(e) ==
    IF e.held # <<>>
    THEN IF e.region = "public" THEN HeldAge(e) < Ttl(e.region)
         ELSE HeldAge(e) <= Ttl(e.region)
    ELSE e.stored # <<>> /\ e.at - e.stored[1].timestamp <= Ttl(e.region)

\* The pairs of reads of one key, the earlier first.
ReadPairs ==
    {<<i, j>> \in (1..Len(hist.reads)) \X (1..Len(hist.reads)) :
        /\ i < j
        /\ hist.reads[i].region = hist.reads[j].region
        /\ hist.reads[i].key = hist.reads[j].key}

C10_OneCatalogFetchInFlight ==
    Cardinality({f \in pending : f.region = "public"}) <= 1

-----------------------------------------------------------------------------
(* Properties of the caches under mutations                                *)

\* The entries of a product list that are about product id.
About(list, id) == SelectSeq(list, LAMBDA x : x.id = id)

\* What read e was served from a cache agrees, for product id, with store d: the
\* product as a by-id fetch would return it, its entry in the catalog or in the page,
\* the number of floor samples.
Current(e, d, id) ==
    \/ e.served = <<>>
    \/ /\ e.region = "product"
       /\ e.key = id => e.served \in {FetchProductById(d, id, TRUE),
                                      FetchProductById(d, id, FALSE)}
    \/ /\ e.region = "public"
       /\ About(e.served[1], id) \in {About(AssembleCatalog(d, TRUE), id),
                                       About(AssembleCatalog(d, FALSE), id)}
    \/ /\ e.region = "page"
       /\ About(e.served[1].products, id)
             = About(FloorSamplesRange(d, e.key, PageSize), id)
    \/ /\ e.region = "count"
       /\ e.served[1] = FloorSamplesCount(d)

\* C11: after a create, update or delete has completed, no read of a cache region is
\* served data about the affected product that differs from what the store holds.
C11_NoStaleRead ==
    last.op \in Mutations =>
        \A k \in (last.reads + 1)..Len(hist.reads) : Current(hist.reads[k], db, last.id)

-----------------------------------------------------------------------------
(* Properties of usePaginatedFloorSamples                                  *)

\* The mounted usePaginatedFloorSamples instances.
FloorHooks == {c \in Consumers : hooks[c].hook = "floor"}

\* C14: hasMore is true exactly when page * pageSize < totalCount if the total count
\* is known (totalCount > 0), and otherwise exactly when the page held by the hook
\* has pageSize products.
C14_HasMore ==
    \A c \in FloorHooks :
        HasMore(hooks[c], PageSize) <=>
            IF hooks[c].totalCount > 0
            THEN hooks[c].key * PageSize < hooks[c].totalCount
            ELSE Len(hooks[c].products) = PageSize

\* One hook knows the count and is on a page before the last, another has a full
\* page and no count yet: both report hasMore.
C14_Witness ==
    \E c, b \in FloorHooks :
        /\ hooks[c].totalCount > PageSize /\ hooks[c].key = 1
        /\ HasMore(hooks[c], PageSize)
        /\ hooks[b].totalCount = 0 /\ Len(hooks[b].products) = PageSize
        /\ HasMore(hooks[b], PageSize)

\* The hook of consumer c has settled: it is not loading and none of its requests
\* is in flight.
Settled(c) ==
    /\ c \in FloorHooks
    /\ ~hooks[c].isLoading
    /\ \A f \in pending : ~(f.owner = c /\ f.active)

\* min(s, max(0, T - (p - 1) * s))
OnPage(T, p, s) ==
    LET rest == T - (p - 1) * s
    IN IF rest <= 0 THEN 0 ELSE IF rest < s THEN rest ELSE s

\* C15: for a store of T floor samples, a settled usePaginatedFloorSamples reports
\* totalCount = T on whatever page it is, and that page holds
\* min(s, max(0, T - (p - 1) * s)) products.
C15_TotalOnEveryPage ==
    \A c \in FloorHooks :
        Settled(c) =>
            /\ hooks[c].totalCount = FloorSamplesCount(db)
            /\ Len(hooks[c].products) = OnPage(FloorSamplesCount(db), hooks[c].key, PageSize)

\* A step in which a count request resolves and setCachedFloorSamplesCount stores
\* its result.
CountRefreshed ==
    \E f \in pending :
        /\ f.region = "count"
        /\ pending' = pending \ {f}
        /\ hist'.done.region = "count" /\ hist'.done.seq = f.seq
        /\ hist'.done.ok

\* The step leaves the cached pages as they were but for totalCount, set to count.
PagesRewritten(count) ==
    /\ DOMAIN cache'.floorSamplesPageCache = DOMAIN cache.floorSamplesPageCache
    /\ \A k \in DOMAIN cache.floorSamplesPageCache :
          /\ cache'.floorSamplesPageCache[k].totalCount = count
          /\ cache'.floorSamplesPageCache[k].products
                = cache.floorSamplesPageCache[k].products
          /\ cache'.floorSamplesPageCache[k].timestamp
                = cache.floorSamplesPageCache[k].timestamp

\* C16: whenever the floor-sample count is refreshed with c, every entry of the page
\* cache has its totalCount set to c, and the entries' product lists, their
\* timestamps and the set of cached keys stay as they were.
C16_CountRefreshRewritesPages ==
    [][CountRefreshed =>
          /\ cache'.floorSamplesCountCache
                = <<[count |-> hist'.done.result[1], timestamp |-> now]>>
          /\ PagesRewritten(hist'.done.result[1])]_vars

\* Two pages were cached while the count was unknown (their stored copies still say
\* 0) and the count, refreshed since, has been written into both.
C16_Witness ==
    /\ Cardinality(DOMAIN cache.floorSamplesPageCache) >= 2
    /\ hist.done.region = "count" /\ hist.done.ok
    /\ \A k \in DOMAIN cache.floorSamplesPageCache :
          /\ cache.floorSamplesPageCache[k].totalCount = hist.done.result[1]
          /\ cache.floorSamplesPageCache[k].totalCount > 0
          /\ k \in DOMAIN storage.page
          /\ storage.page[k].totalCount = 0

\* A step in which request f of a mounted hook resolves successfully.
Resolved(f) ==
    /\ f.active
    /\ pending' = pending \ {f}
    /\ hist'.done.region = f.region /\ hist'.done.key = f.key
    /\ hist'.done.seq = f.seq
    /\ hist'.done.ok

\* A read of the persisted mirror that throws, or finds a string that does not
\* parse.
MirrorReadFails(e) ==
    /\ e.held = <<>>
    /\ \/ ~Readable(storage)
       \/ e.stored # <<>> /\ ~e.stored[1].parses

\* The memory cache holds what the last page or count fetch stored.
MemoryUpdated ==
    /\ (hist.done.region = "page" /\ hist.done.ok /\ hist.done.found)
          => hist.done.entry = <<[products |-> hist.done.result[1].products,
                                  totalCount |-> hist.done.result[1].totalCount,
                                  timestamp |-> hist.done.at]>>
    /\ (hist.done.region = "count" /\ hist.done.ok)
          => hist.done.entry = <<[count |-> hist.done.result[1],
                                  timestamp |-> hist.done.at]>>

\* C17: whatever localStorage does (missing, throwing on access, throwing on
\* setItem), a page or count fetch that succeeds leaves its result in the memory
\* cache and hands it to the hook that asked; and a read of the mirror that throws
\* or does not parse is a miss: nothing is served and the entry is fetched.
C17_MirrorBestEffort ==
    /\ [](MemoryUpdated
          /\ \A i \in DOMAIN hist.reads :
                MirrorReadFails(hist.reads[i])
                  => hist.reads[i].served = <<>> /\ hist.reads[i].fetch = 1)
    /\ [][\A f \in pending :
            Resolved(f) =>
              /\ f.region = "page"
                    => /\ ~hooks'[f.owner].isLoading
                       /\ hooks'[f.owner].products = hist'.done.result[1].products
                       /\ hooks'[f.owner].totalCount
                             = hist'.done.result[1].totalCount
              /\ f.region = "count"
                    => hooks'[f.owner].totalCount = hist'.done.result[1]]_vars

\* localStorage throws on every access and holds page 1 from an earlier visit: the
\* read of page 1 was a miss, the mirror was not written, and the page just fetched
\* is in the memory cache and in the hook.
C17_Witness ==
    /\ ~Readable(storage) /\ ~Writable(storage)
    /\ storage = LockedStorage
    /\ hist.done.region = "page" /\ hist.done.key = 1
    /\ hist.done.ok /\ hist.done.found /\ hist.done.active
    /\ hist.done.entry # <<>>
    /\ \E i \in DOMAIN hist.reads :
          /\ hist.reads[i].region = "page" /\ hist.reads[i].key = 1
          /\ hist.reads[i].stored # <<>>
          /\ hist.reads[i].served = <<>>
    /\ \E c \in Consumers :
          /\ hooks[c].hook = "floor" /\ hooks[c].key = 1
          /\ hooks[c].products = hist.done.result[1].products
          /\ Len(hooks[c].products) = PageSize

\* The urls of rows by ascending display_order, read off the orders themselves.
ByAscendingOrder(rows, urls) ==
    /\ Len(urls) = Len(rows)
    /\ \A k \in 1..Len(urls) :
          \E i \in 1..Len(rows) :
            /\ rows[i].image_url = urls[k]
            /\ Cardinality({j \in 1..Len(rows) :
                               rows[j].display_order < rows[i].display_order}) = k - 1

\* C18: the product assembled from image rows in any order has imageUrls by
\* ascending display_order, and its mainImageUrl is imageUrls[0] whenever imageUrls
\* is not empty.
C18_SortedAndMainFirst ==
    hist.result # <<>> =>
        /\ ByAscendingOrder(hist.args.images, hist.result[1].imageUrls)
        /\ hist.result[1].imageUrls # <<>>
              => hist.result[1].mainImageUrl = hist.result[1].imageUrls[1]

\* C19: after dbToProduct returns, the three row arrays it was given hold the same
\* rows in the same order as before the call, and the product row is unchanged.
C19_InputsUnchanged ==
    hist.result # <<>> => hist.after = hist.args

\* The relation fetches a product calls for.
RelationRegions(p) ==
    (IF p.isSet THEN {"children"} ELSE {})
    \cup (IF p.partOfSet # UndefId THEN {"parent"} ELSE {})

\* The relation requests consumer c's hook sends in this step.
RelationsStarted(c) ==
    {f \in pending' \ pending :
        f.owner = c /\ f.active /\ f.region \in {"children", "parent"}}

\* C20: useProductById sends the child-products request and the parent-set request
\* of a product in one step, so that neither has completed when the other starts;
\* when either ends, failed or not, the hook keeps its product, error is null and
\* isLoading is false, and the other relation is as it was; a relation request that
\* succeeds is applied whatever became of the other.
C20_RelationsIndependent ==
    [][/\ \A c \in Consumers :
            RelationsStarted(c) # {} =>
              /\ hooks'[c].product # <<>>
              /\ {f.region : f \in RelationsStarted(c)}
                    = RelationRegions(hooks'[c].product[1])
       /\ \A f \in pending : \A outcome \in FetchOutcomes :
            (f.active /\ RelationSettles(f, outcome)) =>
              /\ hooks'[f.owner].product = hooks[f.owner].product
              /\ hooks'[f.owner].product # <<>>
              /\ hooks'[f.owner].error = Null
              /\ ~hooks'[f.owner].isLoading
              /\ f.region = "children"
                    => /\ hooks'[f.owner].parentSet = hooks[f.owner].parentSet
                       /\ outcome # "failed"
                             => hooks'[f.owner].setChildren
                                  = FetchChildProductsForSet(db, f.key)
              /\ f.region = "parent"
                    => /\ hooks'[f.owner].setChildren = hooks[f.owner].setChildren
                       /\ outcome # "failed"
                             => hooks'[f.owner].parentSet
                                  = FetchProductById(db, f.key, outcome = "ok")]_vars

\* A hook shows a product that is a set and an item of a set; both relation requests
\* have ended, the child-products one failed (the store holds a child), and the
\* parent set is applied.
C20_Witness ==
    \E c \in Consumers :
      /\ hooks[c].hook = "product"
      /\ hooks[c].product # <<>>
      /\ RelationRegions(hooks[c].product[1]) = {"children", "parent"}
      /\ \A f \in pending : f.owner # c
      /\ FetchChildProductsForSet(db, hooks[c].key) # <<>>
      /\ hooks[c].setChildren = <<>>
      /\ hooks[c].parentSet # <<>>
      /\ hooks[c].parentSet[1].id = hooks[c].product[1].partOfSet
      /\ hooks[c].error = Null
      /\ ~hooks[c].isLoading

-----------------------------------------------------------------------------
(* Relationship states                                                     *)

\* standalone, is-a-set, is-a-set-child: what is_set and part_of_set say of product x.
RelationshipState(d, x) ==
    [is_set |-> d.products[x].is_set, part_of_set |-> d.products[x].part_of_set]

\* The products the last call found in the store and was not asked to delete.
Bystanders ==
    ProductIds(last.pre) \ (IF last.op = "delete" THEN {last.id} ELSE {})

\* C21: an addProduct or deleteProduct call leaves the relationship state of every
\* product other than the ones it creates or deletes as it was.
C21_OnlyUpdateChangesRelations ==
    last.op \in {"add", "delete"} =>
        \A x \in Bystanders :
            /\ x \in ProductIds(db)
            /\ RelationshipState(db, x) = RelationshipState(last.pre, x)

\* C21, amended: an addProduct call leaves the relationship state of every product
\* it did not create as it was; a deleteProduct call changes that of the products
\* whose part_of_set was the product to delete, which end with part_of_set null,
\* and of no other.
C21_DeleteOnlyDetaches ==
    last.op \in {"add", "delete"} =>
        \A x \in Bystanders :
            /\ x \in ProductIds(db)
            /\ \/ RelationshipState(db, x) = RelationshipState(last.pre, x)
               \/ /\ last.op = "delete"
                  /\ last.pre.products[x].part_of_set = last.id
                  /\ db.products[x].part_of_set = NullId

\* A set has been deleted: its parent row is gone, its child is detached, and the
\* child's own relationship state is no longer the one it had.
C21_Witness ==
    /\ last.op = "delete" /\ last.ok
    /\ last.id \notin ProductIds(db)
    /\ \E x \in Bystanders :
          /\ last.pre.products[x].part_of_set = last.id
          /\ x \in ProductIds(db)
          /\ RelationshipState(db, x) # RelationshipState(last.pre, x)
          /\ db.products[x].part_of_set = NullId

-----------------------------------------------------------------------------
(* Stale results                                                           *)

\* Consumer c's hook has a request of the region in flight for its current key.
Awaiting(c, region) ==
    \E f \in pending :
        f.owner = c /\ f.active /\ f.region = region /\ f.key = hooks[c].key

-----------------------------------------------------------------------------
(* The page and the count                                                  *)

\* Consumer c's hook has a count request in flight.
AwaitingCount(c) ==
    \E f \in pending : f.owner = c /\ f.active /\ f.region = "count"

\* C24: a floor-sample hook that is loading has its page request in flight, whatever
\* has become of the count request; and when the page request resolves, the page's
\* products are delivered and isLoading becomes false, the count request being left
\* in flight if it was.
C24_PageNeverWaitsForCount ==
    /\ [](\A c \in Consumers :
            (hooks[c].hook = "floor" /\ hooks[c].isLoading) => Awaiting(c, "page"))
    /\ [][\A f \in pending :
            (f.region = "page" /\ f.active /\ CompletePage(f) /\ hist'.done.ok) =>
              /\ ~hooks'[f.owner].isLoading
              /\ hooks'[f.owner].products = FloorSamplesRange(db, f.key, PageSize)
              /\ \A g \in pending : g.region = "count" => g \in pending']_vars

\* A page is shown, not loading, while the count request of the same hook is still
\* in flight and no count is cached.
C24_Witness ==
    \E c \in Consumers :
      /\ hooks[c].hook = "floor"
      /\ ~hooks[c].isLoading
      /\ Len(hooks[c].products) = PageSize
      /\ hooks[c].totalCount = 0
      /\ AwaitingCount(c)
      /\ cache.floorSamplesCountCache = <<>>
      /\ hist.done.region = "page" /\ hist.done.ok /\ hist.done.active

-----------------------------------------------------------------------------
(* Eviction                                                                *)

\* The keyed memory entries: by-id products and floor-sample pages.
KeyedEntries(mem) ==
    {<<"product", k, mem.productByIdCache[k].timestamp>>
        : k \in DOMAIN mem.productByIdCache}
    \cup {<<"page", k, mem.floorSamplesPageCache[k].timestamp>>
            : k \in DOMAIN mem.floorSamplesPageCache}

\* The single-slot memory entries: the count and the public catalog.
SlotEntries(mem) ==
    {<<"count", NullId, mem.floorSamplesCountCache[k].timestamp>>
        : k \in DOMAIN mem.floorSamplesCountCache}
    \cup {<<"public", NullId, mem.publicProductsCache[k].timestamp>>
            : k \in DOMAIN mem.publicProductsCache}

\* The entries of the memory cache that this step removes: held before it, with no
\* entry under their region and key after it.
Evicted ==
    {e \in KeyedEntries(cache) \cup SlotEntries(cache) :
        \A g \in KeyedEntries(cache') \cup SlotEntries(cache') :
            ~(g[1] = e[1] /\ g[2] = e[2])}

\* The reads this step makes.
NewReads == {hist'.reads[i] : i \in (Len(hist.reads) + 1)..Len(hist'.reads)}

\* The step is a read of the region and key of entry e, or a page fetch reading the
\* count (fetchFloorSamplesPage, part_005:1509).
ReadsEntry(e) ==
    \/ \E r \in NewReads : r.region = e[1] /\ (e[1] = "page" => r.key = e[2][1])
                             /\ (e[1] = "product" => r.key = e[2])
    \/ /\ e[1] = "count"
       /\ \E f \in pending \ pending' :
             /\ f.region = "page"
             /\ hist'.done.region = "page"
             /\ hist'.done.seq = f.seq /\ hist'.done.key = f.key

\* A read of a by-id or page entry older than the duration deletes it and is a miss.
StaleReadDeletes ==
    \A r \in NewReads :
        (r.region \in {"product", "page"} /\ r.held # <<>>
           /\ HeldAge(r) > Ttl(r.region)) =>
            /\ r.served = <<>>
            /\ \A g \in KeyedEntries(cache') :
                  g[1] = r.region =>
                    g[2] # (IF r.region = "page"
                            THEN GetFloorSamplesCacheKey(r.key, PageSize) ELSE r.key)

\* Entries leave the memory cache only in a read that finds them older than the
\* duration (a page reload, which starts the module over, apart).
OnlyStaleReadsEvict ==
    (\A e \in Evicted : ReadsEntry(e) /\ now - e[3] > Ttl(e[1])) \/ Reload

\* C25 as stated: a read of a by-id or page entry older than the TTL deletes it and
\* is a miss, a memory entry is served only while its age is below the TTL, and
\* nothing but a read removes an entry.
C25_ServedOnlyBelowTtl ==
    /\ [](\A e \in Reads :
            (e.held # <<>> /\ e.served # <<>>) => HeldAge(e) < Ttl(e.region))
    /\ [][StaleReadDeletes /\ OnlyStaleReadsEvict]_vars

\* C25, amended: a read of a by-id or page entry older than the duration deletes it
\* and is a miss; a memory entry is served exactly while its age does not exceed the
\* duration (by-id, page, count) or is below it (public catalog); and an entry leaves
\* the memory cache only in a read that finds it older than the duration.
C25_ServedUpToTtl ==
    /\ [](\A e \in Reads :
            e.held # <<>> =>
              (e.served # <<>> <=>
                 IF e.region = "public" THEN HeldAge(e) < Ttl(e.region)
                 ELSE HeldAge(e) <= Ttl(e.region)))
    /\ [][StaleReadDeletes /\ OnlyStaleReadsEvict]_vars

\* A by-id entry was read at exactly the cache duration: it was served, and the
\* read left it in the cache.
C25_Witness ==
    \E i \in DOMAIN hist.reads :
      /\ hist.reads[i].region = "product"
      /\ hist.reads[i].held # <<>>
      /\ HeldAge(hist.reads[i]) = PRODUCT_CACHE_DURATION
      /\ hist.reads[i].served # <<>>
      /\ hist.reads[i].fetch = 0
      /\ hist.reads[i].key \in DOMAIN cache.productByIdCache

-----------------------------------------------------------------------------
(* C26: the last write to the admin list wins                               *)

\* C26: a catalog fetch that resolves replaces the client list with the rows it read,
\* whatever was confirmed since it read them (and leaves the list alone when it
\* failed); a fetch answered before a call and resolving after the call's local
\* update therefore leaves a list that lacks the confirmed change.
C26_LastWriteWins ==
    [][\A f \in pending \ pending' :
         IF error' = Null
         THEN products' \in {AssembleCatalog(f.db, TRUE), AssembleCatalog(f.db, FALSE)}
         ELSE products' = products]_vars

\* addProduct resolved and prepended its product; a fetch answered before it has since
\* resolved, and the list lacks the product the store holds.
C26_Witness ==
    /\ last.op = "add"
    /\ last.ok
    /\ last.fetch = "none"
    /\ last.id \in ProductIds(db)
    /\ pending = {}
    /\ error = Null
    /\ products = AssembleCatalog(last.pre, TRUE)
    /\ last.id \notin ListIds(products)


-----------------------------------------------------------------------------
(* C27: the admin list after a call that resolved                           *)

\* What a list says of the relationships of its products: the ids, and per product
\* isSet, partOfSet and the child link of each set item, in order.
ListRelations(list) ==
    {[id |-> list[k].id,
      isSet |-> list[k].isSet,
      partOfSet |-> list[k].partOfSet,
      links |-> [j \in 1..Len(list[k].setItems) |-> list[k].setItems[j].childProductId]]
     : k \in 1..Len(list)}

\* C27: after an addProduct, updateProduct or deleteProduct call that resolved, the
\* calls running one at a time, the admin list holds the product ids of the store and
\* for each the isSet, partOfSet, set items and child links of the store rows.
C27_ListMatchesStore ==
    (last.op \in {"add", "update", "delete"} /\ last.ok)
        => ListRelations(products) = ListRelations(AssembleCatalog(db, TRUE))

\* deleteProduct of a set resolved from a list that matched the store: the store has
\* detached its children, the list still shows them as parts of the deleted set.
C27_DeletedSetKeepsParts ==
    /\ last.op = "delete"
    /\ last.ok
    /\ \E k \in 1..Len(products) :
         /\ products[k].partOfSet = last.id
         /\ products[k].id \in ProductIds(db)
         /\ db.products[products[k].id].part_of_set = NullId
         /\ ListRelations(AssembleCatalog(last.pre, TRUE))
              = ListRelations(products) \cup
                  {r \in ListRelations(AssembleCatalog(last.pre, TRUE)) : r.id = last.id}

-----------------------------------------------------------------------------
(* C28: the store after a call that rejected                                *)

\* The rows of store d.
StoreRows(d) == <<d.products, d.product_images, d.set_items, d.set_item_images>>

\* The rows of d are among those of e, the product rows of d unchanged in e.
RowsKept(d, e) ==
    /\ \A x \in ProductIds(d) : x \in ProductIds(e) /\ e.products[x] = d.products[x]
    /\ d.product_images \subseteq e.product_images
    /\ d.set_items \subseteq e.set_items
    /\ d.set_item_images \subseteq e.set_item_images

Rejected == last.op \in {"add", "update"} /\ ~last.ok

\* C28 as claimed: after an addProduct or updateProduct call that rejected, the
\* store holds the rows it held before the call.
C28_AllOrNothing == Rejected => StoreRows(db) = StoreRows(last.pre)

\* C28 amended: nothing is rolled back.  A call that rejected at its first store write
\* leaves the rows of the store as they were; an addProduct that rejected at a later
\* step leaves the product row it inserted and every row the store held before; an
\* updateProduct that rejected at a later step leaves the product row as it updated it.
C28_NothingRolledBack ==
    Rejected =>
        /\ last.writes = 1 => StoreRows(db) = StoreRows(last.pre)
        /\ (last.op = "add" /\ last.writes > 1)
              => (last.id \in ProductIds(db) /\ RowsKept(last.pre, db))
        /\ (last.op = "update" /\ last.writes > 1)
              => /\ db.products[last.id].is_set = HasSetItems(last.input)
                 /\ db.products[last.id].price_original = last.input.priceOriginal
                 /\ db.products[last.id].category = last.input.category

\* addProduct rejected after its product row was inserted, and the row is in the store.
C28_Witness ==
    /\ Rejected
    /\ last.op = "add"
    /\ last.writes > 1
    /\ last.id \in ProductIds(db)
    /\ last.id \notin ProductIds(last.pre)

\* A call rejected at its first store write.
C28_FirstWriteFails == Rejected /\ last.writes = 1

-----------------------------------------------------------------------------
(* C29: the age of a served count                                           *)

\* C29: a count that fetchFloorSamplesCount serves from the cache came from the store
\* no more than FLOOR_SAMPLES_COUNT_CACHE_DURATION before the read, whether the read
\* found it in memory or in localStorage.
C29_CountServedWithinDuration ==
    \A e \in Reads :
        (e.region = "count" /\ e.served # <<>>) =>
            /\ e.fetchedAt # <<>>
            /\ e.at - e.fetchedAt[1] <= FLOOR_SAMPLES_COUNT_CACHE_DURATION

\* A read that found no memory entry, was served the stored count, and left a memory
\* entry stamped with the time of the read.
C29_Restamped ==
    \E e \in Reads :
        /\ e.held = <<>>
        /\ e.served # <<>>
        /\ e.at > e.stored[1].timestamp
        /\ cache.floorSamplesCountCache # <<>>
        /\ cache.floorSamplesCountCache[1].timestamp = e.at

-----------------------------------------------------------------------------
(* C30: what a fetch sees of a product being updated                        *)

\* The images and set items a list shows for product id.
ShownOf(list, id) ==
    {[imageUrls |-> list[k].imageUrls,
      setItems |-> [j \in 1..Len(list[k].setItems) |->
                      [price |-> list[k].setItems[j].price,
                       imageUrls |-> list[k].setItems[j].imageUrls,
                       childProductId |-> list[k].setItems[j].childProductId]]]
     : k \in {k \in 1..Len(list) : list[k].id = id}}

\* C30: the images and set items that a catalog or by-id fetch assembled for a product
\* that updateProduct was called on are those the store held before the call or those
\* it holds after it.
C30_BeforeOrAfter ==
    last.op = "update" =>
        ShownOf(products, last.id) \subseteq
            ShownOf(AssembleCatalog(last.pre, TRUE), last.id)
              \cup ShownOf(AssembleCatalog(
                               UpdateProductRun(last.pre, last.id, last.input, 0).db,
                               TRUE), last.id)

\* A fetch made while updateProduct was in flight shows the product with no image,
\* although it had images before the call and has images after it.
C30_ShownWithoutImages ==
    /\ last.op = "update"
    /\ pending # {}
    /\ Len(last.input.imageUrls) > 0
    /\ \E r \in ShownOf(AssembleCatalog(last.pre, TRUE), last.id) : Len(r.imageUrls) > 0
    /\ \E r \in ShownOf(products, last.id) : Len(r.imageUrls) = 0

====
